---- MODULE Spec2Model ----
(***************************************************************************)
(* Model of the nginx log analysis core: record parsers, country resolver, *)
(* stream processors and their aggregate tables.  Text is modelled as      *)
(* sequences of one-character strings so that the regular expressions and  *)
(* the date parsing of the source are computed, not assumed.               *)
(***************************************************************************)
EXTENDS Naturals, Integers, Sequences, FiniteSets, TLC

(* ------------------------------ bounds --------------------------------- *)
\* Largest number of lines one behaviour feeds to a processor.
MaxLines == 2

(* ---------------------------- characters ------------------------------- *)
Digits == {"0", "1", "2", "3", "4", "5", "6", "7", "8", "9"}

LowerSeq == <<"a", "b", "c", "d", "e", "f", "g", "h", "i", "j", "k", "l", "m", "n", "o", "p", "q", "r", "s", "t", "u", "v", "w", "x", "y", "z">>

UpperSeq == <<"A", "B", "C", "D", "E", "F", "G", "H", "I", "J", "K", "L", "M", "N", "O", "P", "Q", "R", "S", "T", "U", "V", "W", "X", "Y", "Z">>

Lower == {LowerSeq[i] : i \in 1..26}

Upper == {UpperSeq[i] : i \in 1..26}

\* \w of the re module, restricted to the characters of the model
WordChars == Digits \cup Lower \cup Upper \cup {"_"}

\* the characters str.strip() and str.split() treat as whitespace
Whitespace == {" ", "\t", "\n", "\r"}

Punct == {".", "-", "[", "]", "/", ":", "+", "\"", ",", "#", "*", "(", ")", "?", "="}

Alphabet == WordChars \cup Whitespace \cup Punct

DigitSeq == <<"0", "1", "2", "3", "4", "5", "6", "7", "8", "9">>

DigitVal(c) == (CHOOSE i \in 1..10 : DigitSeq[i] = c) - 1

\* str.lower() / str.upper() on one character
LowerChar(c) == IF c \in Upper THEN LowerSeq[CHOOSE i \in 1..26 : UpperSeq[i] = c] ELSE c

UpperChar(c) == IF c \in Lower THEN UpperSeq[CHOOSE i \in 1..26 : LowerSeq[i] = c] ELSE c

LowerStr(s) == [i \in 1..Len(s) |-> LowerChar(s[i])]

UpperStr(s) == [i \in 1..Len(s) |-> UpperChar(s[i])]

RECURSIVE ToInt(_)
\* int() of a non-empty string of decimal digits
ToInt(s) == IF s = <<>> THEN 0 ELSE 10 * ToInt(SubSeq(s, 1, Len(s) - 1)) + DigitVal(s[Len(s)])

\* str.strip() leaves nothing: every character is whitespace
IsBlank(s) == \A i \in 1..Len(s) : s[i] \in Whitespace

(* ----------------------- regular expression steps ---------------------- *)
(* A position is an index into the line; 0 means the match has failed.     *)
(* Each step takes the position reached so far and returns the next one.   *)

\* a local name: Body applied to the value, which is computed once
Bind(value, Body(_)) == Body(value)

\* literal text
Lit(s, i, lit) == IF i > 0 /\ i + Len(lit) - 1 <= Len(s) /\ SubSeq(s, i, i + Len(lit) - 1) = lit THEN i + Len(lit) ELSE 0

\* first position at or after i whose character is not in class C
ScanWhile(s, i, C) == CHOOSE j \in i..(Len(s) + 1) : (\A k \in i..(j - 1) : s[k] \in C) /\ (j = Len(s) + 1 \/ s[j] \notin C)

\* C+ (greedy; every use is followed by a character outside C, so no backtracking)
Plus(s, i, C) == IF i = 0 \/ i > Len(s) THEN 0 ELSE IF ScanWhile(s, i, C) > i THEN ScanWhile(s, i, C) ELSE 0

\* C{n}
Rep(s, i, C, n) == IF i > 0 /\ i + n - 1 <= Len(s) /\ (\A k \in i..(i + n - 1) : s[k] \in C) THEN i + n ELSE 0

\* (\d+\.\d+\.\d+\.\d+)
MatchIp(s, i) == Plus(s, Lit(s, Plus(s, Lit(s, Plus(s, Lit(s, Plus(s, i, Digits), <<".">>), Digits), <<".">>), Digits), <<".">>), Digits)

\* (\d{2}/\w{3}/\d{4})
MatchDate(s, i) == Rep(s, Lit(s, Rep(s, Lit(s, Rep(s, i, Digits, 2), <<"/">>), WordChars, 3), <<"/">>), Digits, 4)

(* ------------------------------ dates ---------------------------------- *)
MonthNames == <<<<"j", "a", "n">>, <<"f", "e", "b">>, <<"m", "a", "r">>, <<"a", "p", "r">>, <<"m", "a", "y">>, <<"j", "u", "n">>, <<"j", "u", "l">>, <<"a", "u", "g">>, <<"s", "e", "p">>, <<"o", "c", "t">>, <<"n", "o", "v">>, <<"d", "e", "c">>>>

IsLeap(y) == (y % 4 = 0 /\ y % 100 # 0) \/ y % 400 = 0

DaysInMonth(m, y) == IF m = 2 THEN (IF IsLeap(y) THEN 29 ELSE 28) ELSE IF m \in {4, 6, 9, 11} THEN 30 ELSE 31

NoValue == [ok |-> FALSE]

\* parse_timestamp checking the month name only, not the day
ParseTimestampAnyDay(date_str) ==
    LET day == ToInt(SubSeq(date_str, 1, 2))
        mon == LowerStr(SubSeq(date_str, 4, 6))
        year == ToInt(SubSeq(date_str, 8, 11))
        known == \E m \in 1..12 : MonthNames[m] = mon
        month == CHOOSE m \in 1..12 : MonthNames[m] = mon
    IN IF known
       THEN [ok |-> TRUE, year |-> year, month |-> month, day |-> day, hour |-> 0, minute |-> 0, second |-> 0]
       ELSE NoValue

\* datetime.strptime(date_str, "%d/%b/%Y") on text of the shape \d{2}/\w{3}/\d{4}:
\* %b matches month abbreviations without regard to case, the day must be
\* 01..31 and exist in the month, the year must be 0001..9999; ValueError -> None
parse_timestamp(date_str) ==
    LET day == ToInt(SubSeq(date_str, 1, 2))
        mon == LowerStr(SubSeq(date_str, 4, 6))
        year == ToInt(SubSeq(date_str, 8, 11))
        known == \E m \in 1..12 : MonthNames[m] = mon
        month == CHOOSE m \in 1..12 : MonthNames[m] = mon
    IN IF known /\ year >= 1 /\ day >= 1 /\ day <= DaysInMonth(month, year)
       THEN [ok |-> TRUE, year |-> year, month |-> month, day |-> day, hour |-> 0, minute |-> 0, second |-> 0]
       ELSE NoValue

(* --------------------------- access parser ----------------------------- *)
Unknown == <<"U", "n", "k", "n", "o", "w", "n">>

\* LOG_PATTERN_FULL with \d{2} for the status
MatchFullTwoDigitStatus(line) ==
    Bind(MatchIp(line, 1), LAMBDA p1 :
    Bind(Lit(line, p1, <<" ", "-", " ", "-", " ", "[">>), LAMBDA p2 :
    Bind(MatchDate(line, p2), LAMBDA p3 :
    Bind(Plus(line, Lit(line, p3, <<":">>), Alphabet \ {"]"}), LAMBDA p4 :
    Bind(Lit(line, p4, <<"]", " ", "\"">>), LAMBDA p5 :
    Bind(Plus(line, p5, WordChars), LAMBDA p6 :
    Bind(Lit(line, p6, <<" ">>), LAMBDA p7 :
    Bind(Plus(line, p7, Alphabet \ {" "}), LAMBDA p8 :
    Bind(Lit(line, Plus(line, Lit(line, p8, <<" ">>), Alphabet \ {"\""}), <<"\"", " ">>), LAMBDA p9 :
    Bind(Rep(line, p9, Digits, 2), LAMBDA p10 :
        IF p10 = 0 THEN NoValue
        ELSE [ok |-> TRUE, ip |-> SubSeq(line, 1, p1 - 1), date_str |-> SubSeq(line, p2, p3 - 1),
              method |-> SubSeq(line, p5, p6 - 1), url |-> SubSeq(line, p7, p8 - 1),
              status_code |-> SubSeq(line, p9, p10 - 1)]))))))))))

\* LOG_PATTERN_FULL.match(line)
MatchFull(line) ==
    Bind(MatchIp(line, 1), LAMBDA p1 :
    Bind(Lit(line, p1, <<" ", "-", " ", "-", " ", "[">>), LAMBDA p2 :
    Bind(MatchDate(line, p2), LAMBDA p3 :
    Bind(Plus(line, Lit(line, p3, <<":">>), Alphabet \ {"]"}), LAMBDA p4 :
    Bind(Lit(line, p4, <<"]", " ", "\"">>), LAMBDA p5 :
    Bind(Plus(line, p5, WordChars), LAMBDA p6 :
    Bind(Lit(line, p6, <<" ">>), LAMBDA p7 :
    Bind(Plus(line, p7, Alphabet \ {" "}), LAMBDA p8 :
    Bind(Lit(line, Plus(line, Lit(line, p8, <<" ">>), Alphabet \ {"\""}), <<"\"", " ">>), LAMBDA p9 :
    Bind(Rep(line, p9, Digits, 3), LAMBDA p10 :
        IF p10 = 0 THEN NoValue
        ELSE [ok |-> TRUE, ip |-> SubSeq(line, 1, p1 - 1), date_str |-> SubSeq(line, p2, p3 - 1),
              method |-> SubSeq(line, p5, p6 - 1), url |-> SubSeq(line, p7, p8 - 1),
              status_code |-> SubSeq(line, p9, p10 - 1)]))))))))))

\* LOG_PATTERN.match(line)
MatchBasic(line) ==
    Bind(MatchIp(line, 1), LAMBDA p1 :
    Bind(Lit(line, p1, <<" ", "-", " ", "-", " ", "[">>), LAMBDA p2 :
    Bind(MatchDate(line, p2), LAMBDA p3 :
        IF p3 = 0 THEN NoValue
        ELSE [ok |-> TRUE, ip |-> SubSeq(line, 1, p1 - 1), date_str |-> SubSeq(line, p2, p3 - 1)])))

AccessLogEntry(ip, timestamp, method, url, status_code, date_str) ==
    [ok |-> TRUE, ip |-> ip, timestamp |-> timestamp, method |-> method, url |-> url,
     status_code |-> status_code, country |-> Unknown, date |-> date_str, hour |-> timestamp.hour]

\* parse_access_line trying the basic form before the full form
ParseAccessLineBasicFirst(line) ==
    IF IsBlank(line) THEN NoValue
    ELSE IF MatchBasic(line).ok
         THEN LET m == MatchBasic(line)
                  timestamp == parse_timestamp(m.date_str)
              IN IF ~timestamp.ok THEN NoValue
                 ELSE AccessLogEntry(m.ip, timestamp, <<"U", "N", "K", "N", "O", "W", "N">>, <<"/">>, <<"0", "0", "0">>, m.date_str)
    ELSE NoValue

\* parse_access_line taking the hour from the time of day of the line
ParseAccessLineTimeOfDay(line) ==
    IF IsBlank(line) THEN NoValue
    ELSE IF MatchFull(line).ok
         THEN LET m == MatchFull(line)
                  timestamp == parse_timestamp(m.date_str)
              IN IF ~timestamp.ok THEN NoValue
                 ELSE [AccessLogEntry(m.ip, timestamp, m.method, m.url, m.status_code, m.date_str)
                          EXCEPT !.hour = ToInt(SubSeq(line, Len(m.ip) + 19, Len(m.ip) + 20))]
    ELSE IF MatchBasic(line).ok
         THEN LET m == MatchBasic(line)
                  timestamp == parse_timestamp(m.date_str)
              IN IF ~timestamp.ok THEN NoValue
                 ELSE AccessLogEntry(m.ip, timestamp, <<"U", "N", "K", "N", "O", "W", "N">>, <<"/">>, <<"0", "0", "0">>, m.date_str)
    ELSE NoValue

\* AccessLogParser.parse_access_line
parse_access_line(line) ==
    IF IsBlank(line) THEN NoValue
    ELSE IF MatchFull(line).ok
         THEN LET m == MatchFull(line)
                  timestamp == parse_timestamp(m.date_str)
              IN IF ~timestamp.ok THEN NoValue
                 ELSE AccessLogEntry(m.ip, timestamp, m.method, m.url, m.status_code, m.date_str)
    ELSE IF MatchBasic(line).ok
         THEN LET m == MatchBasic(line)
                  timestamp == parse_timestamp(m.date_str)
              IN IF ~timestamp.ok THEN NoValue
                 ELSE AccessLogEntry(m.ip, timestamp, <<"U", "N", "K", "N", "O", "W", "N">>, <<"/">>, <<"0", "0", "0">>, m.date_str)
    ELSE NoValue

(* --------------------------- sample lines ------------------------------ *)
\* full form, status 200
A1 == <<"1", ".", "1", ".", "1", ".", "1", " ", "-", " ", "-", " ", "[", "1", "0", "/", "J", "a", "n", "/", "2", "0", "2", "4", ":", "1", "3", ":", "4", "5", ":", "0", "2", " ", "+", "0", "0", "0", "0", "]", " ", "\"", "G", "E", "T", " ", "/", "a", " ", "H", "T", "T", "P", "/", "1", ".", "1", "\"", " ", "2", "0", "0", " ", "5", "\n">>

\* full form, status 404, a date whose ISO week belongs to the next year
A2 == <<"2", ".", "2", ".", "2", ".", "2", " ", "-", " ", "-", " ", "[", "3", "1", "/", "D", "e", "c", "/", "2", "0", "2", "4", ":", "0", "1", ":", "0", "0", ":", "0", "0", " ", "+", "0", "0", "0", "0", "]", " ", "\"", "P", "O", "S", "T", " ", "/", "b", " ", "H", "T", "T", "P", "/", "1", ".", "1", "\"", " ", "4", "0", "4", " ", "0", "\n">>

\* request text "-": only the basic form matches
A3 == <<"3", ".", "3", ".", "3", ".", "3", " ", "-", " ", "-", " ", "[", "1", "0", "/", "J", "a", "n", "/", "2", "0", "2", "4", ":", "1", "3", ":", "4", "5", ":", "0", "2", " ", "+", "0", "0", "0", "0", "]", " ", "\"", "-", "\"", " ", "4", "0", "0", " ", "0", "\n">>

\* full form, lower-case month, a date whose ISO week belongs to the previous year
A4 == <<"4", ".", "4", ".", "4", ".", "4", " ", "-", " ", "-", " ", "[", "0", "1", "/", "j", "a", "n", "/", "2", "0", "2", "3", ":", "2", "3", ":", "5", "9", ":", "5", "9", " ", "+", "0", "0", "0", "0", "]", " ", "\"", "G", "E", "T", " ", "/", "a", " ", "H", "T", "T", "P", "/", "1", ".", "1", "\"", " ", "5", "0", "0", " ", "1", "\n">>

\* full form whose date text is no calendar date (day 99)
A5 == <<"1", ".", "1", ".", "1", ".", "1", " ", "-", " ", "-", " ", "[", "9", "9", "/", "J", "a", "n", "/", "2", "0", "2", "4", ":", "1", "3", ":", "4", "5", ":", "0", "2", " ", "+", "0", "0", "0", "0", "]", " ", "\"", "G", "E", "T", " ", "/", "a", " ", "H", "T", "T", "P", "/", "1", ".", "1", "\"", " ", "2", "0", "0", " ", "5", "\n">>

\* basic form only, unknown month name
A6 == <<"2", ".", "2", ".", "2", ".", "2", " ", "-", " ", "-", " ", "[", "1", "0", "/", "F", "o", "o", "/", "2", "0", "2", "4", " ", "x", "\n">>

\* matches neither form
A7 == <<"n", "o", "t", " ", "a", " ", "l", "o", "g", " ", "l", "i", "n", "e", " ", "a", "t", " ", "a", "l", "l", "\n">>

\* blank
A8 == <<" ", "\n">>

AccessLines == {A1, A2, A3, A4, A5, A6, A7, A8}

AccessLineSeq == <<A1, A2, A3, A4, A5, A6, A7, A8>>

IP1 == <<"1", ".", "1", ".", "1", ".", "1">>

IP2 == <<"2", ".", "2", ".", "2", ".", "2">>

IP3 == <<"3", ".", "3", ".", "3", ".", "3">>

IP4 == <<"4", ".", "4", ".", "4", ".", "4">>

US == <<"U", "S">>

KR == <<"K", "R">>

(* ------------------------- country resolver ---------------------------- *)
\* The lookup backend: reader.country(ip).country.iso_code.  The database of
\* the model knows IP1 and IP2, has a record without a country code for IP4
\* and raises (AddressNotFoundError, ValueError) for every other text.
ReaderCountry(ip) ==
    IF ip = IP1 THEN [raised |-> FALSE, iso_code |-> US]
    ELSE IF ip = IP2 THEN [raised |-> FALSE, iso_code |-> KR]
    ELSE IF ip = IP4 THEN [raised |-> FALSE, iso_code |-> <<>>]
    ELSE [raised |-> TRUE, iso_code |-> <<>>]

\* GeoIPManager._initialize_reader: the reader stays None when the database
\* file is missing or geoip2.database.Reader raises
InitializeReader(db) ==
    IF db = "missing" THEN [raised |-> FALSE, reader |-> "none"]
    ELSE IF db = "corrupt" THEN [raised |-> FALSE, reader |-> "none"]
    ELSE [raised |-> FALSE, reader |-> "open"]

\* get_country without its try/except
GetCountryNoCatch(rd, ip) ==
    IF rd # "open" THEN [raised |-> FALSE, value |-> Unknown]
    ELSE IF ReaderCountry(ip).raised THEN [raised |-> TRUE, value |-> <<>>]
    ELSE [raised |-> FALSE, value |-> IF ReaderCountry(ip).iso_code = <<>> THEN Unknown ELSE ReaderCountry(ip).iso_code]

\* GeoIPManager.get_country
get_country(rd, ip) ==
    IF rd # "open" THEN [raised |-> FALSE, value |-> Unknown]
    ELSE IF ReaderCountry(ip).raised THEN [raised |-> FALSE, value |-> Unknown]
    ELSE [raised |-> FALSE, value |-> IF ReaderCountry(ip).iso_code = <<>> THEN Unknown ELSE ReaderCountry(ip).iso_code]

(* -------------------------- aggregate tables --------------------------- *)
(* A dict is a sequence of <<key, value>> pairs in insertion order.        *)
Keys(t) == {t[i][1] : i \in DOMAIN t}

Has(t, k) == \E i \in DOMAIN t : t[i][1] = k

Get(t, k) == t[CHOOSE i \in DOMAIN t : t[i][1] = k][2]

\* defaultdict(int)[k] += 1
Inc(t, k) ==
    IF Has(t, k) THEN [i \in DOMAIN t |-> IF t[i][1] = k THEN <<k, t[i][2] + 1>> ELSE t[i]]
    ELSE Append(t, <<k, 1>>)

\* defaultdict(Counter)[k1][k2] += 1
IncNested(t, k1, k2) ==
    IF Has(t, k1) THEN [i \in DOMAIN t |-> IF t[i][1] = k1 THEN <<k1, Inc(t[i][2], k2)>> ELSE t[i]]
    ELSE Append(t, <<k1, <<<<k2, 1>>>>>>)

RECURSIVE SumValues(_)
\* sum(t.values())
SumValues(t) == IF t = <<>> THEN 0 ELSE t[1][2] + SumValues(Tail(t))

RECURSIVE SumNested(_)
SumNested(t) == IF t = <<>> THEN 0 ELSE SumValues(t[1][2]) + SumNested(Tail(t))

(* ------------------------------ ISO week ------------------------------- *)
DaysBeforeYear(y) == (y - 1) * 365 + (y - 1) \div 4 - (y - 1) \div 100 + (y - 1) \div 400

RECURSIVE DaysBeforeMonth(_, _)
DaysBeforeMonth(y, m) == IF m = 1 THEN 0 ELSE DaysBeforeMonth(y, m - 1) + DaysInMonth(m - 1, y)

\* date.toordinal()
Ymd2Ord(y, m, d) == DaysBeforeYear(y) + DaysBeforeMonth(y, m) + d

\* ordinal of the Monday that starts ISO week 1 of year y
IsoWeek1Monday(y) ==
    Bind(Ymd2Ord(y, 1, 1), LAMBDA firstday :
    Bind((firstday + 6) % 7, LAMBDA firstweekday :
       IF firstweekday > 3 THEN firstday - firstweekday + 7 ELSE firstday - firstweekday))

\* date.isocalendar(): <<ISO year, ISO week>>
IsoCalendar(y, m, d) ==
    Bind(Ymd2Ord(y, m, d), LAMBDA today :
    Bind((today - IsoWeek1Monday(y)) \div 7, LAMBDA week :
       IF today < IsoWeek1Monday(y) THEN <<y - 1, (today - IsoWeek1Monday(y - 1)) \div 7 + 1>>
       ELSE IF week >= 52 /\ today >= IsoWeek1Monday(y + 1) THEN <<y + 1, 1>>
       ELSE <<y, week + 1>>))

RECURSIVE IntToStr(_)
\* str() of a natural number
IntToStr(n) == IF n < 10 THEN <<DigitSeq[n + 1]>> ELSE IntToStr(n \div 10) \o <<DigitSeq[(n % 10) + 1]>>

\* f"{n:02d}"
Pad2(n) == IF n < 10 THEN <<"0">> \o IntToStr(n) ELSE IntToStr(n)

\* the week key built from the calendar year of the date, not the ISO year
WeekKeyCalendarYear(date_str) ==
    Bind(parse_timestamp(date_str), LAMBDA dt :
       IF ~dt.ok THEN Unknown
       ELSE IntToStr(dt.year) \o <<"-", "W">> \o Pad2(IsoCalendar(dt.year, dt.month, dt.day)[2]))

\* the week key of _update_stats: f"{year}-W{week:02d}" of the ISO calendar of
\* the entry's date, "Unknown" when the date text does not parse
WeekKey(date_str) ==
    Bind(parse_timestamp(date_str), LAMBDA dt :
       IF ~dt.ok THEN Unknown
       ELSE IntToStr(IsoCalendar(dt.year, dt.month, dt.day)[1]) \o <<"-", "W">> \o Pad2(IsoCalendar(dt.year, dt.month, dt.day)[2]))

(* ---------------------------- error parser ----------------------------- *)
\* s.find(sub) >= 0
Contains(s, sub) == \E i \in 1..(Len(s) - Len(sub) + 1) : SubSeq(s, i, i + Len(sub) - 1) = sub

\* $ of the re module: the end of the text, or just before a final newline
AtEnd(s, i) == i = Len(s) + 1 \/ (i = Len(s) /\ s[i] = "\n")

\* (\d{4}/\d{2}/\d{2} \d{2}:\d{2}:\d{2})
MatchErrorTimestamp(s, i) ==
    Bind(Lit(s, Rep(s, i, Digits, 4), <<"/">>), LAMBDA d1 :
    Bind(Lit(s, Rep(s, d1, Digits, 2), <<"/">>), LAMBDA d2 :
    Bind(Lit(s, Rep(s, d2, Digits, 2), <<" ">>), LAMBDA d3 :
    Bind(Lit(s, Rep(s, d3, Digits, 2), <<":">>), LAMBDA t1 :
    Bind(Lit(s, Rep(s, t1, Digits, 2), <<":">>), LAMBDA t2 :
       Rep(s, t2, Digits, 2))))))

\* ErrorLogParser.parse_timestamp: datetime.strptime(text, "%Y/%m/%d %H:%M:%S")
\* on text of the shape matched above; ValueError -> None
parse_error_timestamp(ts) ==
    Bind(ToInt(SubSeq(ts, 1, 4)), LAMBDA year :
    Bind(ToInt(SubSeq(ts, 6, 7)), LAMBDA month :
    Bind(ToInt(SubSeq(ts, 9, 10)), LAMBDA day :
    Bind(ToInt(SubSeq(ts, 12, 13)), LAMBDA hour :
    Bind(ToInt(SubSeq(ts, 15, 16)), LAMBDA minute :
    Bind(ToInt(SubSeq(ts, 18, 19)), LAMBDA second :
       IF year >= 1 /\ month \in 1..12 /\ day >= 1 /\ day <= DaysInMonth(month, year)
          /\ hour <= 23 /\ minute <= 59 /\ second <= 59
       THEN [ok |-> TRUE, year |-> year, month |-> month, day |-> day, hour |-> hour, minute |-> minute, second |-> second]
       ELSE NoValue))))))

\* the pattern from ", client: " on, tried with the message ending before q:
\* , client: ([\d\.]+), server: ([^,]+), request: "([^"]+)", host: "([^"]+)"(?:, referrer: "([^"]+)")?$
MatchErrorTail(s, q) ==
    Bind(Lit(s, q, <<",", " ", "c", "l", "i", "e", "n", "t", ":", " ">>), LAMBDA c0 :
    Bind(Plus(s, c0, Digits \cup {"."}), LAMBDA c1 :
    Bind(Lit(s, c1, <<",", " ", "s", "e", "r", "v", "e", "r", ":", " ">>), LAMBDA s0 :
    Bind(Plus(s, s0, Alphabet \ {","}), LAMBDA s1 :
    Bind(Lit(s, s1, <<",", " ", "r", "e", "q", "u", "e", "s", "t", ":", " ", "\"">>), LAMBDA r0 :
    Bind(Plus(s, r0, Alphabet \ {"\""}), LAMBDA r1 :
    Bind(Lit(s, r1, <<"\"", ",", " ", "h", "o", "s", "t", ":", " ", "\"">>), LAMBDA h0 :
    Bind(Plus(s, h0, Alphabet \ {"\""}), LAMBDA h1 :
    Bind(Lit(s, h1, <<"\"">>), LAMBDA h2 :
    Bind(Lit(s, h2, <<",", " ", "r", "e", "f", "e", "r", "r", "e", "r", ":", " ", "\"">>), LAMBDA f0 :
    Bind(Plus(s, f0, Alphabet \ {"\""}), LAMBDA f1 :
    Bind(Lit(s, f1, <<"\"">>), LAMBDA f2 :
       IF f2 # 0 /\ AtEnd(s, f2)
       THEN [ok |-> TRUE, client_ip |-> SubSeq(s, c0, c1 - 1), server |-> SubSeq(s, s0, s1 - 1),
             request |-> SubSeq(s, r0, r1 - 1), host |-> SubSeq(s, h0, h1 - 1), referrer |-> SubSeq(s, f0, f1 - 1)]
       ELSE IF h2 # 0 /\ AtEnd(s, h2)
       THEN [ok |-> TRUE, client_ip |-> SubSeq(s, c0, c1 - 1), server |-> SubSeq(s, s0, s1 - 1),
             request |-> SubSeq(s, r0, r1 - 1), host |-> SubSeq(s, h0, h1 - 1), referrer |-> <<>>]
       ELSE NoValue))))))))))))

\* ERROR_LOG_PATTERN.match(line); (.+?) takes the shortest message, free of
\* newlines, after which the rest of the pattern matches
MatchError(line) ==
    Bind(MatchErrorTimestamp(line, 1), LAMBDA p1 :
    Bind(Lit(line, p1, <<" ", "[">>), LAMBDA p2 :
    Bind(Plus(line, p2, WordChars), LAMBDA p3 :
    Bind(Lit(line, p3, <<"]", " ">>), LAMBDA p4 :
    Bind(Plus(line, p4, Digits), LAMBDA p5 :
    Bind(Lit(line, p5, <<"#">>), LAMBDA p6 :
    Bind(Plus(line, p6, Digits), LAMBDA p7 :
    Bind(Lit(line, p7, <<":", " ", "*">>), LAMBDA p8 :
    Bind(Plus(line, p8, Digits), LAMBDA p9 :
    Bind(Lit(line, p9, <<" ">>), LAMBDA m0 :
    Bind(IF m0 = 0 THEN {}
         ELSE {q \in (m0 + 1)..Len(line) : (\A k \in m0..(q - 1) : line[k] # "\n") /\ MatchErrorTail(line, q).ok}, LAMBDA ends :
    Bind(CHOOSE q \in ends : \A r \in ends : q <= r, LAMBDA q0 :
       IF ends = {} THEN NoValue
       ELSE [ok |-> TRUE, timestamp_str |-> SubSeq(line, 1, p1 - 1), level |-> SubSeq(line, p2, p3 - 1),
             pid |-> SubSeq(line, p4, p5 - 1), tid |-> SubSeq(line, p6, p7 - 1),
             client_id |-> SubSeq(line, p8, p9 - 1), message |-> SubSeq(line, m0, q0 - 1),
             tail |-> MatchErrorTail(line, q0)]))))))))))))

\* extract_error_type asking for "timeout" before "connection refused"
ExtractErrorTypeTimeoutFirst(message) ==
    IF Contains(message, <<"d", "i", "r", "e", "c", "t", "o", "r", "y", " ", "i", "n", "d", "e", "x">>) THEN <<"D", "i", "r", "e", "c", "t", "o", "r", "y", " ", "I", "n", "d", "e", "x", " ", "F", "o", "r", "b", "i", "d", "d", "e", "n">>
    ELSE IF Contains(message, <<"c", "l", "i", "e", "n", "t", " ", "i", "n", "t", "e", "n", "d", "e", "d", " ", "t", "o", " ", "s", "e", "n", "d", " ", "t", "o", "o", " ", "l", "a", "r", "g", "e", " ", "b", "o", "d", "y">>) THEN <<"R", "e", "q", "u", "e", "s", "t", " ", "B", "o", "d", "y", " ", "T", "o", "o", " ", "L", "a", "r", "g", "e">>
    ELSE IF Contains(message, <<"t", "i", "m", "e", "o", "u", "t">>) THEN <<"T", "i", "m", "e", "o", "u", "t">>
    ELSE IF Contains(message, <<"c", "o", "n", "n", "e", "c", "t", "i", "o", "n", " ", "r", "e", "f", "u", "s", "e", "d">>) THEN <<"C", "o", "n", "n", "e", "c", "t", "i", "o", "n", " ", "R", "e", "f", "u", "s", "e", "d">>
    ELSE IF Contains(message, <<"n", "o", "t", " ", "f", "o", "u", "n", "d">>) THEN <<"N", "o", "t", " ", "F", "o", "u", "n", "d">>
    ELSE <<"O", "t", "h", "e", "r">>

\* the error type of the first keyword, in the given order, that occurs in the message
extract_error_type(message) ==
    IF Contains(message, <<"d", "i", "r", "e", "c", "t", "o", "r", "y", " ", "i", "n", "d", "e", "x">>) THEN <<"D", "i", "r", "e", "c", "t", "o", "r", "y", " ", "I", "n", "d", "e", "x", " ", "F", "o", "r", "b", "i", "d", "d", "e", "n">>
    ELSE IF Contains(message, <<"c", "l", "i", "e", "n", "t", " ", "i", "n", "t", "e", "n", "d", "e", "d", " ", "t", "o", " ", "s", "e", "n", "d", " ", "t", "o", "o", " ", "l", "a", "r", "g", "e", " ", "b", "o", "d", "y">>) THEN <<"R", "e", "q", "u", "e", "s", "t", " ", "B", "o", "d", "y", " ", "T", "o", "o", " ", "L", "a", "r", "g", "e">>
    ELSE IF Contains(message, <<"c", "o", "n", "n", "e", "c", "t", "i", "o", "n", " ", "r", "e", "f", "u", "s", "e", "d">>) THEN <<"C", "o", "n", "n", "e", "c", "t", "i", "o", "n", " ", "R", "e", "f", "u", "s", "e", "d">>
    ELSE IF Contains(message, <<"t", "i", "m", "e", "o", "u", "t">>) THEN <<"T", "i", "m", "e", "o", "u", "t">>
    ELSE IF Contains(message, <<"n", "o", "t", " ", "f", "o", "u", "n", "d">>) THEN <<"N", "o", "t", " ", "F", "o", "u", "n", "d">>
    ELSE <<"O", "t", "h", "e", "r">>

\* request.split(' '): <<parts[0], parts[1]>> when there are two parts or more
parse_request(request) ==
    Bind(ScanWhile(request, 1, Alphabet \ {" "}), LAMBDA sp1 :
    Bind(ScanWhile(request, sp1 + 1, Alphabet \ {" "}), LAMBDA sp2 :
       IF sp1 > Len(request) THEN <<<<"U", "N", "K", "N", "O", "W", "N">>, <<"/">>>>
       ELSE <<SubSeq(request, 1, sp1 - 1), SubSeq(request, sp1 + 1, sp2 - 1)>>))

\* timestamp.strftime("%Y-%m-%d") (the years of the model have four digits)
FormatDate(ts) == IntToStr(ts.year) \o <<"-">> \o Pad2(ts.month) \o <<"-">> \o Pad2(ts.day)

\* ErrorLogParser.parse_error_line; rd is the reader state of the manager
\* passed in, "absent" when no manager is passed
parse_error_line(line, rd) ==
    IF IsBlank(line) THEN [raised |-> FALSE, looked_up |-> FALSE, ip |-> <<>>, entry |-> NoValue]
    ELSE IF ~MatchError(line).ok THEN [raised |-> FALSE, looked_up |-> FALSE, ip |-> <<>>, entry |-> NoValue]
    ELSE Bind(MatchError(line), LAMBDA m :
         Bind(parse_error_timestamp(m.timestamp_str), LAMBDA timestamp :
         Bind(IF rd = "absent" THEN [raised |-> FALSE, value |-> Unknown] ELSE get_country(rd, m.tail.client_ip), LAMBDA res :
            IF ~timestamp.ok THEN [raised |-> FALSE, looked_up |-> FALSE, ip |-> <<>>, entry |-> NoValue]
            ELSE IF res.raised THEN [raised |-> TRUE, looked_up |-> TRUE, ip |-> m.tail.client_ip, entry |-> NoValue]
            ELSE [raised |-> FALSE, looked_up |-> rd # "absent", ip |-> m.tail.client_ip,
                  entry |-> [ok |-> TRUE, timestamp |-> timestamp, level |-> m.level, pid |-> ToInt(m.pid),
                             tid |-> ToInt(m.tid), client_id |-> ToInt(m.client_id), message |-> m.message,
                             client_ip |-> m.tail.client_ip, server |-> m.tail.server, request |-> m.tail.request,
                             host |-> m.tail.host, referrer |-> m.tail.referrer, date |-> FormatDate(timestamp),
                             hour |-> timestamp.hour, country |-> res.value,
                             error_type |-> extract_error_type(m.message),
                             url_path |-> parse_request(m.tail.request)[2],
                             http_method |-> parse_request(m.tail.request)[1]]])))

\* no keyword in the message
E1 == <<"2", "0", "2", "4", "/", "0", "1", "/", "1", "0", " ", "1", "3", ":", "4", "5", ":", "0", "2", " ", "[", "e", "r", "r", "o", "r", "]", " ", "1", "2", "3", "4", "#", "0", ":", " ", "*", "5", " ", "o", "p", "e", "n", "(", ")", " ", "f", "a", "i", "l", "e", "d", ",", " ", "c", "l", "i", "e", "n", "t", ":", " ", "1", ".", "1", ".", "1", ".", "1", ",", " ", "s", "e", "r", "v", "e", "r", ":", " ", "e", "x", "a", "m", "p", "l", "e", ".", "c", "o", "m", ",", " ", "r", "e", "q", "u", "e", "s", "t", ":", " ", "\"", "G", "E", "T", " ", "/", "m", "i", "s", "s", "i", "n", "g", " ", "H", "T", "T", "P", "/", "1", ".", "1", "\"", ",", " ", "h", "o", "s", "t", ":", " ", "\"", "e", "x", "a", "m", "p", "l", "e", ".", "c", "o", "m", "\"", "\n">>

\* two keywords, a referrer
E2 == <<"2", "0", "2", "4", "/", "0", "1", "/", "1", "1", " ", "0", "1", ":", "0", "2", ":", "0", "3", " ", "[", "e", "r", "r", "o", "r", "]", " ", "7", "#", "0", ":", " ", "*", "6", " ", "d", "i", "r", "e", "c", "t", "o", "r", "y", " ", "i", "n", "d", "e", "x", " ", "o", "f", " ", "x", " ", "n", "o", "t", " ", "f", "o", "u", "n", "d", ",", " ", "c", "l", "i", "e", "n", "t", ":", " ", "2", ".", "2", ".", "2", ".", "2", ",", " ", "s", "e", "r", "v", "e", "r", ":", " ", "s", ",", " ", "r", "e", "q", "u", "e", "s", "t", ":", " ", "\"", "G", "E", "T", " ", "/", " ", "H", "T", "T", "P", "/", "1", ".", "1", "\"", ",", " ", "h", "o", "s", "t", ":", " ", "\"", "h", "\"", ",", " ", "r", "e", "f", "e", "r", "r", "e", "r", ":", " ", "\"", "r", "\"", "\n">>

\* ", client: " inside the message, a request of one part
E3 == <<"2", "0", "2", "4", "/", "0", "1", "/", "1", "1", " ", "2", "3", ":", "0", "2", ":", "0", "3", " ", "[", "w", "a", "r", "n", "]", " ", "7", "#", "1", ":", " ", "*", "7", " ", "t", "i", "m", "e", "o", "u", "t", ",", " ", "c", "l", "i", "e", "n", "t", ":", " ", "b", "a", "d", ",", " ", "c", "l", "i", "e", "n", "t", ":", " ", "3", ".", "3", ".", "3", ".", "3", ",", " ", "s", "e", "r", "v", "e", "r", ":", " ", "s", ",", " ", "r", "e", "q", "u", "e", "s", "t", ":", " ", "\"", "H", "E", "A", "D", "\"", ",", " ", "h", "o", "s", "t", ":", " ", "\"", "h", "\"", "\n">>

\* month 13
E4 == <<"2", "0", "2", "4", "/", "1", "3", "/", "1", "0", " ", "1", "3", ":", "4", "5", ":", "0", "2", " ", "[", "e", "r", "r", "o", "r", "]", " ", "1", "#", "0", ":", " ", "*", "1", " ", "o", "p", "e", "n", "(", ")", " ", "f", "a", "i", "l", "e", "d", ",", " ", "c", "l", "i", "e", "n", "t", ":", " ", "1", ".", "1", ".", "1", ".", "1", ",", " ", "s", "e", "r", "v", "e", "r", ":", " ", "s", ",", " ", "r", "e", "q", "u", "e", "s", "t", ":", " ", "\"", "G", "E", "T", " ", "/", " ", "H", "T", "T", "P", "/", "1", ".", "1", "\"", ",", " ", "h", "o", "s", "t", ":", " ", "\"", "h", "\"", "\n">>

\* two keywords in the reverse of the classification order
E5 == <<"2", "0", "2", "4", "/", "0", "1", "/", "1", "0", " ", "1", "3", ":", "4", "5", ":", "0", "2", " ", "[", "e", "r", "r", "o", "r", "]", " ", "1", "2", "3", "4", "#", "0", ":", " ", "*", "8", " ", "u", "p", "s", "t", "r", "e", "a", "m", " ", "t", "i", "m", "e", "o", "u", "t", " ", "(", "c", "o", "n", "n", "e", "c", "t", "i", "o", "n", " ", "r", "e", "f", "u", "s", "e", "d", ")", ",", " ", "c", "l", "i", "e", "n", "t", ":", " ", "4", ".", "4", ".", "4", ".", "4", ",", " ", "s", "e", "r", "v", "e", "r", ":", " ", "s", ",", " ", "r", "e", "q", "u", "e", "s", "t", ":", " ", "\"", "G", "E", "T", " ", "/", "a", " ", "H", "T", "T", "P", "/", "1", ".", "1", "\"", ",", " ", "h", "o", "s", "t", ":", " ", "\"", "h", "\"", "\n">>

ErrorLineSeq == <<E1, E2, E3, E4, E5, A7, A8>>

(* ---------------------- successful-request parser ---------------------- *)
RECURSIVE SplitFrom(_, _)
\* line.split() from position i on: the maximal runs of non-whitespace
SplitFrom(s, i) ==
    Bind(ScanWhile(s, i, Whitespace), LAMBDA b :
    Bind(ScanWhile(s, b, Alphabet \ Whitespace), LAMBDA e :
       IF i > Len(s) \/ b > Len(s) THEN <<>> ELSE <<SubSeq(s, b, e - 1)>> \o SplitFrom(s, e)))

Split(s) == SplitFrom(s, 1)

\* text.strip('"')
StripQuotes(s) ==
    Bind({i \in 1..Len(s) : s[i] # "\""}, LAMBDA keep :
       IF keep = {} THEN <<>>
       ELSE SubSeq(s, CHOOSE i \in keep : \A j \in keep : i <= j, CHOOSE i \in keep : \A j \in keep : i >= j))

IsDigitChar(c) == c \in Digits

IntBody(s) == IF s # <<>> /\ s[1] \in {"+", "-"} THEN Tail(s) ELSE s

\* int(text) does not raise ValueError: an optional sign, then digits that
\* single underscores may separate
IsIntText(s) ==
    Bind(IntBody(s), LAMBDA b :
       /\ b # <<>>
       /\ \A i \in 1..Len(b) : b[i] \in Digits \cup {"_"}
       /\ b[1] # "_" /\ b[Len(b)] # "_"
       /\ \A i \in 1..(Len(b) - 1) : ~(b[i] = "_" /\ b[i + 1] = "_"))

IntValue(s) == IF s[1] = "-" THEN 0 - ToInt(SelectSeq(IntBody(s), IsDigitChar)) ELSE ToInt(SelectSeq(IntBody(s), IsDigitChar))

\* _is_successful_request without the range test
IsSuccessfulAnyCode(status_code) == IsIntText(status_code)

\* SuccessfulRequestAnalyzer._is_successful_request
is_successful_request(status_code) ==
    IF IsIntText(status_code) THEN 200 <= IntValue(status_code) /\ IntValue(status_code) < 300 ELSE FALSE

\* one or two digits, as %d %H %M %S read them
Num12(s, i) == IF Rep(s, i, Digits, 2) # 0 THEN i + 2 ELSE Rep(s, i, Digits, 1)

\* %z followed by the closing bracket and the end of the text: Z, or a sign,
\* two digits of hours, an optional colon and two digits of minutes
MatchZone(s, i) ==
    Bind(Rep(s, Plus(s, i, {"+", "-"}), Digits, 2), LAMBDA h :
    Bind(IF Lit(s, h, <<":">>) # 0 THEN h + 1 ELSE h, LAMBDA c :
    Bind(Rep(s, Rep(s, c, {"0", "1", "2", "3", "4", "5"}, 1), Digits, 1), LAMBDA m :
    Bind(Lit(s, i, <<"Z">>), LAMBDA z :
       IF z # 0 THEN (IF Lit(s, z, <<"]">>) = Len(s) + 1 THEN z ELSE 0)
       ELSE IF m # 0 /\ h = i + 3 /\ ToInt(SubSeq(s, i + 1, i + 2)) <= 23 /\ Lit(s, m, <<"]">>) = Len(s) + 1 THEN m
       ELSE 0))))

\* datetime.strptime(text, '[%d/%b/%Y:%H:%M:%S %z]'); ValueError -> no value
parse_success_timestamp(t) ==
    Bind(Lit(t, 1, <<"[">>), LAMBDA d0 :
    Bind(Num12(t, d0), LAMBDA d1 :
    Bind(Lit(t, d1, <<"/">>), LAMBDA b0 :
    Bind(Rep(t, b0, Lower \cup Upper, 3), LAMBDA b1 :
    Bind(Lit(t, b1, <<"/">>), LAMBDA y0 :
    Bind(Rep(t, y0, Digits, 4), LAMBDA y1 :
    Bind(Lit(t, y1, <<":">>), LAMBDA h0 :
    Bind(Num12(t, h0), LAMBDA h1 :
    Bind(Lit(t, h1, <<":">>), LAMBDA m0 :
    Bind(Num12(t, m0), LAMBDA m1 :
    Bind(Lit(t, m1, <<":">>), LAMBDA s0 :
    Bind(Num12(t, s0), LAMBDA s1 :
    Bind(Lit(t, s1, <<" ">>), LAMBDA z0 :
    Bind(MatchZone(t, z0), LAMBDA z1 :
    Bind(LowerStr(SubSeq(t, b0, b1 - 1)), LAMBDA mon :
    Bind(CHOOSE m \in 1..12 : MonthNames[m] = mon, LAMBDA month :
    Bind(ToInt(SubSeq(t, d0, d1 - 1)), LAMBDA day :
    Bind(ToInt(SubSeq(t, y0, y1 - 1)), LAMBDA year :
    Bind(ToInt(SubSeq(t, h0, h1 - 1)), LAMBDA hour :
    Bind(ToInt(SubSeq(t, m0, m1 - 1)), LAMBDA minute :
    Bind(ToInt(SubSeq(t, s0, s1 - 1)), LAMBDA second :
       IF z0 = 0 \/ z1 = 0 THEN NoValue
       ELSE IF (\E m \in 1..12 : MonthNames[m] = mon) /\ year >= 1 /\ day >= 1 /\ day <= DaysInMonth(month, year)
               /\ hour <= 23 /\ minute <= 59 /\ second <= 59
       THEN [ok |-> TRUE, year |-> year, month |-> month, day |-> day, hour |-> hour, minute |-> minute, second |-> second]
       ELSE NoValue)))))))))))))))))))))

\* the last token that starts with a quote and satisfies the test, stripped
LastQuoted(parts, hits) ==
    IF hits = {} THEN <<>> ELSE StripQuotes(parts[CHOOSE i \in hits : \A j \in hits : i >= j])

\* _parse_log_line asking for ten tokens
ParseLogLineTenTokens(line, rd) ==
    Bind(Split(line), LAMBDA parts :
    Bind(parts[9], LAMBDA status_code :
    Bind(parse_success_timestamp(parts[4] \o <<" ">> \o parts[5]), LAMBDA timestamp :
    Bind(IF rd = "absent" THEN [raised |-> FALSE, value |-> Unknown] ELSE get_country(rd, parts[1]), LAMBDA res :
    Bind({i \in 1..Len(parts) : parts[i][1] = "\"" /\ Contains(parts[i], <<"M", "o", "z", "i", "l", "l", "a">>)}, LAMBDA agents :
    Bind({i \in 1..Len(parts) : /\ i \notin agents
                                 /\ parts[i][1] = "\""
                                 /\ (Contains(parts[i], <<"h", "t", "t", "p", ":", "/", "/">>) \/ Contains(parts[i], <<"h", "t", "t", "p", "s", ":", "/", "/">>))}, LAMBDA referers :
    Bind(parts[Len(parts)], LAMBDA last :
       IF IsBlank(line) THEN [raised |-> FALSE, looked_up |-> FALSE, ip |-> <<>>, entry |-> NoValue]
       ELSE IF Len(parts) < 10 THEN [raised |-> FALSE, looked_up |-> FALSE, ip |-> <<>>, entry |-> NoValue]
       ELSE IF ~is_successful_request(status_code) THEN [raised |-> FALSE, looked_up |-> FALSE, ip |-> <<>>, entry |-> NoValue]
       ELSE IF ~timestamp.ok THEN [raised |-> FALSE, looked_up |-> FALSE, ip |-> <<>>, entry |-> NoValue]
       ELSE IF res.raised THEN [raised |-> FALSE, looked_up |-> TRUE, ip |-> parts[1], entry |-> NoValue]
       ELSE [raised |-> FALSE, looked_up |-> rd # "absent", ip |-> parts[1],
             entry |-> [ok |-> TRUE, ip |-> parts[1], timestamp |-> timestamp, method |-> StripQuotes(parts[6]),
                        url |-> parts[7], status_code |-> status_code, country |-> res.value,
                        date |-> FormatDate(timestamp), hour |-> timestamp.hour,
                        user_agent |-> LastQuoted(parts, agents), referer |-> LastQuoted(parts, referers),
                        response_size |-> IF IsIntText(last) THEN [ok |-> TRUE, value |-> IntValue(last)] ELSE NoValue]])))))))

\* _parse_log_line without its try blocks: a failing strptime leaves the
\* function as an exception
ParseLogLineNoTry(line, rd) ==
    Bind(Split(line), LAMBDA parts :
    Bind(parts[9], LAMBDA status_code :
    Bind(parse_success_timestamp(parts[4] \o <<" ">> \o parts[5]), LAMBDA timestamp :
    Bind(IF rd = "absent" THEN [raised |-> FALSE, value |-> Unknown] ELSE get_country(rd, parts[1]), LAMBDA res :
    Bind({i \in 1..Len(parts) : parts[i][1] = "\"" /\ Contains(parts[i], <<"M", "o", "z", "i", "l", "l", "a">>)}, LAMBDA agents :
    Bind({i \in 1..Len(parts) : /\ i \notin agents
                                 /\ parts[i][1] = "\""
                                 /\ (Contains(parts[i], <<"h", "t", "t", "p", ":", "/", "/">>) \/ Contains(parts[i], <<"h", "t", "t", "p", "s", ":", "/", "/">>))}, LAMBDA referers :
    Bind(parts[Len(parts)], LAMBDA last :
       IF IsBlank(line) THEN [raised |-> FALSE, looked_up |-> FALSE, ip |-> <<>>, entry |-> NoValue]
       ELSE IF Len(parts) < 12 THEN [raised |-> FALSE, looked_up |-> FALSE, ip |-> <<>>, entry |-> NoValue]
       ELSE IF ~is_successful_request(status_code) THEN [raised |-> FALSE, looked_up |-> FALSE, ip |-> <<>>, entry |-> NoValue]
       ELSE IF ~timestamp.ok THEN [raised |-> TRUE, looked_up |-> FALSE, ip |-> <<>>, entry |-> NoValue]
       ELSE IF res.raised THEN [raised |-> TRUE, looked_up |-> TRUE, ip |-> parts[1], entry |-> NoValue]
       ELSE [raised |-> FALSE, looked_up |-> rd # "absent", ip |-> parts[1],
             entry |-> [ok |-> TRUE, ip |-> parts[1], timestamp |-> timestamp, method |-> StripQuotes(parts[6]),
                        url |-> parts[7], status_code |-> status_code, country |-> res.value,
                        date |-> FormatDate(timestamp), hour |-> timestamp.hour,
                        user_agent |-> LastQuoted(parts, agents), referer |-> LastQuoted(parts, referers),
                        response_size |-> IF IsIntText(last) THEN [ok |-> TRUE, value |-> IntValue(last)] ELSE NoValue]])))))))

\* SuccessfulRequestAnalyzer._parse_log_line; rd is the reader state of the
\* analyzer's manager, "absent" when it has none
parse_log_line(line, rd) ==
    Bind(Split(line), LAMBDA parts :
    Bind(parts[9], LAMBDA status_code :
    Bind(parse_success_timestamp(parts[4] \o <<" ">> \o parts[5]), LAMBDA timestamp :
    Bind(IF rd = "absent" THEN [raised |-> FALSE, value |-> Unknown] ELSE get_country(rd, parts[1]), LAMBDA res :
    Bind({i \in 1..Len(parts) : parts[i][1] = "\"" /\ Contains(parts[i], <<"M", "o", "z", "i", "l", "l", "a">>)}, LAMBDA agents :
    Bind({i \in 1..Len(parts) : /\ i \notin agents
                                 /\ parts[i][1] = "\""
                                 /\ (Contains(parts[i], <<"h", "t", "t", "p", ":", "/", "/">>) \/ Contains(parts[i], <<"h", "t", "t", "p", "s", ":", "/", "/">>))}, LAMBDA referers :
    Bind(parts[Len(parts)], LAMBDA last :
       IF IsBlank(line) THEN [raised |-> FALSE, looked_up |-> FALSE, ip |-> <<>>, entry |-> NoValue]
       ELSE IF Len(parts) < 12 THEN [raised |-> FALSE, looked_up |-> FALSE, ip |-> <<>>, entry |-> NoValue]
       ELSE IF ~is_successful_request(status_code) THEN [raised |-> FALSE, looked_up |-> FALSE, ip |-> <<>>, entry |-> NoValue]
       ELSE IF ~timestamp.ok THEN [raised |-> FALSE, looked_up |-> FALSE, ip |-> <<>>, entry |-> NoValue]
       ELSE IF res.raised THEN [raised |-> FALSE, looked_up |-> TRUE, ip |-> parts[1], entry |-> NoValue]
       ELSE [raised |-> FALSE, looked_up |-> rd # "absent", ip |-> parts[1],
             entry |-> [ok |-> TRUE, ip |-> parts[1], timestamp |-> timestamp, method |-> StripQuotes(parts[6]),
                        url |-> parts[7], status_code |-> status_code, country |-> res.value,
                        date |-> FormatDate(timestamp), hour |-> timestamp.hour,
                        user_agent |-> LastQuoted(parts, agents), referer |-> LastQuoted(parts, referers),
                        response_size |-> IF IsIntText(last) THEN [ok |-> TRUE, value |-> IntValue(last)] ELSE NoValue]])))))))

\* combined format, twelve tokens, status 200
S1 == <<"1", ".", "1", ".", "1", ".", "1", " ", "-", " ", "-", " ", "[", "1", "0", "/", "J", "a", "n", "/", "2", "0", "2", "4", ":", "1", "3", ":", "4", "5", ":", "0", "2", " ", "+", "0", "0", "0", "0", "]", " ", "\"", "G", "E", "T", " ", "/", "a", " ", "H", "T", "T", "P", "/", "1", ".", "1", "\"", " ", "2", "0", "0", " ", "5", " ", "\"", "-", "\"", " ", "\"", "M", "o", "z", "i", "l", "l", "a", "/", "5", ".", "0", "\"", "\n">>

\* status 201, a referer, a numeric last token
S2 == <<"2", ".", "2", ".", "2", ".", "2", " ", "-", " ", "-", " ", "[", "3", "1", "/", "D", "e", "c", "/", "2", "0", "2", "4", ":", "0", "1", ":", "0", "0", ":", "0", "0", " ", "+", "0", "9", "0", "0", "]", " ", "\"", "P", "O", "S", "T", " ", "/", "b", " ", "H", "T", "T", "P", "/", "1", ".", "1", "\"", " ", "2", "0", "1", " ", "0", " ", "\"", "h", "t", "t", "p", ":", "/", "/", "r", "\"", " ", "\"", "c", "u", "r", "l", "\"", " ", "7", "\n">>

\* status 404
S3 == <<"1", ".", "1", ".", "1", ".", "1", " ", "-", " ", "-", " ", "[", "1", "0", "/", "J", "a", "n", "/", "2", "0", "2", "4", ":", "1", "3", ":", "4", "5", ":", "0", "2", " ", "+", "0", "0", "0", "0", "]", " ", "\"", "G", "E", "T", " ", "/", "c", " ", "H", "T", "T", "P", "/", "1", ".", "1", "\"", " ", "4", "0", "4", " ", "5", " ", "\"", "-", "\"", " ", "\"", "M", "o", "z", "i", "l", "l", "a", "/", "5", ".", "0", "\"", "\n">>

\* hour 25
S4 == <<"2", ".", "2", ".", "2", ".", "2", " ", "-", " ", "-", " ", "[", "1", "0", "/", "J", "a", "n", "/", "2", "0", "2", "4", ":", "2", "5", ":", "4", "5", ":", "0", "2", " ", "+", "0", "0", "0", "0", "]", " ", "\"", "G", "E", "T", " ", "/", "a", " ", "H", "T", "T", "P", "/", "1", ".", "1", "\"", " ", "2", "0", "0", " ", "5", " ", "\"", "-", "\"", " ", "\"", "M", "o", "z", "i", "l", "l", "a", "/", "5", ".", "0", "\"", "\n">>

\* status that is no integer
S5 == <<"2", ".", "2", ".", "2", ".", "2", " ", "-", " ", "-", " ", "[", "1", "0", "/", "J", "a", "n", "/", "2", "0", "2", "4", ":", "1", "3", ":", "4", "5", ":", "0", "2", " ", "+", "0", "0", "0", "0", "]", " ", "\"", "G", "E", "T", " ", "/", "a", " ", "H", "T", "T", "P", "/", "1", ".", "1", "\"", " ", "2", "x", "0", " ", "5", " ", "\"", "-", "\"", " ", "\"", "M", "o", "z", "i", "l", "l", "a", "/", "5", ".", "0", "\"", "\n">>

\* an address the backend does not know
S6 == <<"3", ".", "3", ".", "3", ".", "3", " ", "-", " ", "-", " ", "[", "1", "/", "f", "e", "b", "/", "2", "0", "2", "4", ":", "3", ":", "0", "5", ":", "0", "9", " ", "Z", "]", " ", "\"", "G", "E", "T", " ", "/", "a", " ", "H", "T", "T", "P", "/", "1", ".", "1", "\"", " ", "2", "9", "9", " ", "5", " ", "\"", "-", "\"", " ", "\"", "M", "o", "z", "i", "l", "l", "a", "/", "5", ".", "0", "\"", "\n">>

\* A1: common log format, ten tokens, status 200
SuccessLineSeq == <<S1, S2, S3, S4, S5, S6, A1, A8>>

(* ------------------------------- state --------------------------------- *)
VARIABLES
    kind,                \* which processor the run drives: "access", "error" or "success"
    db_state,            \* the GeoIP database file: "missing", "corrupt" or "ok"
    with_geoip,          \* whether the processor is given a GeoIPManager
    constructed,         \* the constructors have run
    geoip_manager,       \* "unset", "None" or "GeoIPManager"
    reader,              \* GeoIPManager.reader: "none" or "open"
    my_ip_list,          \* the self-IP list handed to process_file
    exclude_countries,   \* the country exclusion list handed to process_file
    access,              \* AccessLogProcessor: stats, weekly_stats, unique_ips, ip_records
    error,               \* ErrorLogProcessor.stats
    successful_requests, \* SuccessfulRequestAnalyzer.successful_requests
    processed,           \* history: the indices of the lines processed so far
    lookups,             \* history: the get_country calls made so far
    raised               \* the last operation let an exception reach its caller

\* the state of one analyze_logs call over a log directory
VARIABLES
    log_dir,             \* the log directory: whether it exists and the names in it
    fault,               \* what is wrong with one file of the directory, if anything
    pc,                  \* "idle", "loop" (between files), "reading", "returned", "deleted"
    files,               \* the list get_log_files returned
    file_idx,            \* the position of the loop over files
    line_idx,            \* the lines of the current file handed to the line processor
    handles,             \* the paths of the file handles that are open
    reader_closed,       \* reader.close() has been called on the GeoIP reader
    snapshot,            \* the value analyze_logs returned
    attempted            \* history: the paths the loop has finished with

batch_vars == <<log_dir, fault, pc, files, file_idx, line_idx, handles, reader_closed, snapshot, attempted>>

vars == <<kind, db_state, with_geoip, constructed, geoip_manager, reader, my_ip_list, exclude_countries,
          access, error, successful_requests, processed, lookups, raised, batch_vars>>

\* no file of the directory is at fault
NoFault == [name |-> <<>>, type |-> "none"]

\* the batch state before analyze_logs is called
BatchIdle ==
    /\ pc = "idle"
    /\ files = <<>>
    /\ file_idx = 0
    /\ line_idx = 0
    /\ handles = {}
    /\ reader_closed = FALSE
    /\ snapshot = NoValue
    /\ attempted = <<>>

\* Optional[List[str]]
NoneList == [none |-> TRUE, items |-> <<>>]

List(items) == [none |-> FALSE, items |-> items]

\* bool(lst) of "if lst and x in lst"
Truthy(lst) == ~lst.none /\ lst.items # <<>>

\* x in lst
InList(x, lst) == \E i \in DOMAIN lst.items : lst.items[i] = x

IpLists == {NoneList, List(<<>>), List(<<IP1>>), List(<<IP2, IP3>>)}

CountryLists == {NoneList, List(<<>>), List(<<US>>), List(<<Unknown, KR>>)}

\* the reader state the parsers and processors see: "absent" without a manager
Rd == IF geoip_manager = "GeoIPManager" THEN reader ELSE "absent"

\* AccessLogProcessor.__init__
NewAccess ==
    [total_requests |-> 0, requests_by_country |-> <<>>, requests_by_hour |-> <<>>, requests_by_date |-> <<>>,
     requests_by_status |-> <<>>, requests_by_method |-> <<>>, weekly_stats |-> <<>>, unique_ips |-> {},
     ip_records |-> <<>>]

\* ErrorLogProcessor.__init__
NewError ==
    [total_errors |-> 0, errors_by_level |-> <<>>, errors_by_hour |-> <<>>, errors_by_date |-> <<>>,
     top_error_messages |-> <<>>, errors_by_pid |-> <<>>, errors_by_country |-> <<>>, errors_by_ip |-> <<>>,
     errors_by_url |-> <<>>, errors_by_method |-> <<>>, errors_by_error_type |-> <<>>]

Init ==
    /\ kind \in {"access", "error", "success"}
    /\ with_geoip \in BOOLEAN
    /\ db_state \in {"missing", "corrupt", "ok"}
    /\ my_ip_list \in IpLists
    /\ exclude_countries \in CountryLists
    \* without a manager the database plays no part; the analyzers always
    \* build a manager and read their lists from ConfigManager (never None)
    /\ ~with_geoip => (db_state = "ok" /\ kind # "success")
    /\ kind = "success" => (~my_ip_list.none /\ ~exclude_countries.none)
    /\ constructed = FALSE
    /\ geoip_manager = "unset"
    /\ reader = "none"
    /\ access = NewAccess
    /\ error = NewError
    /\ successful_requests = <<>>
    /\ processed = <<>>
    /\ lookups = <<>>
    /\ raised = FALSE
    /\ log_dir = [exists |-> FALSE, names |-> {}]
    /\ fault = NoFault
    /\ BatchIdle

\* The constructors.  _initialize_geoip builds GeoIPManager(db_path) inside a
\* try/except that leaves geoip_manager None when the constructor raises; a
\* processor built directly may be given no manager at all.
Construct ==
    /\ ~constructed /\ pc = "idle"
    /\ constructed' = TRUE
    /\ geoip_manager' = IF with_geoip /\ ~InitializeReader(db_state).raised THEN "GeoIPManager" ELSE "None"
    /\ reader' = IF with_geoip /\ ~InitializeReader(db_state).raised THEN InitializeReader(db_state).reader ELSE "none"
    /\ raised' = FALSE
    /\ UNCHANGED <<kind, db_state, with_geoip, my_ip_list, exclude_countries, access, error,
                   successful_requests, processed, lookups, batch_vars>>

(* ------------------- parse results of the sample lines ---------------- *)
(* The parsers applied to each sample line, computed once.                 *)
ReaderStates == {"absent", "none", "open"}

ParsedAccess == [n \in DOMAIN AccessLineSeq |-> parse_access_line(AccessLineSeq[n])]

ParsedError == [n \in DOMAIN ErrorLineSeq |-> [rd \in ReaderStates |-> parse_error_line(ErrorLineSeq[n], rd)]]

ParsedSuccess == [n \in DOMAIN SuccessLineSeq |-> [rd \in ReaderStates |-> parse_log_line(SuccessLineSeq[n], rd)]]

(* -------------------------- access processor --------------------------- *)
\* never skipping
NoSkip(x, lst) == FALSE

\* "if my_ip_list and entry.ip in my_ip_list"
SkipMyIp(ip, lst) == Truthy(lst) /\ InList(ip, lst)

\* "if exclude_countries and entry.country in exclude_countries"
SkipCountry(country, lst) == Truthy(lst) /\ InList(country, lst)

\* _update_stats leaving the method table alone
UpdateStatsNoMethod(a, entry) ==
    [a EXCEPT !.total_requests = @ + 1,
              !.unique_ips = @ \cup {entry.ip},
              !.weekly_stats = IncNested(@, WeekKey(entry.date), entry.country),
              !.requests_by_country = Inc(@, entry.country),
              !.requests_by_hour = Inc(@, entry.hour),
              !.requests_by_date = Inc(@, entry.date),
              !.requests_by_status = Inc(@, entry.status_code)]

\* _update_stats counting every entry under the country of the first record
UpdateStatsFirstCountry(a, entry) ==
    [a EXCEPT !.total_requests = @ + 1,
              !.unique_ips = @ \cup {entry.ip},
              !.weekly_stats = IncNested(@, WeekKey(entry.date), entry.country),
              !.requests_by_country = Inc(@, IF a.ip_records = <<>> THEN entry.country ELSE a.ip_records[1].country),
              !.requests_by_hour = Inc(@, entry.hour),
              !.requests_by_date = Inc(@, entry.date),
              !.requests_by_status = Inc(@, entry.status_code),
              !.requests_by_method = Inc(@, entry.method)]

\* AccessLogProcessor._update_stats
update_stats(a, entry) ==
    [a EXCEPT !.total_requests = @ + 1,
              !.unique_ips = @ \cup {entry.ip},
              !.weekly_stats = IncNested(@, WeekKey(entry.date), entry.country),
              !.requests_by_country = Inc(@, entry.country),
              !.requests_by_hour = Inc(@, entry.hour),
              !.requests_by_date = Inc(@, entry.date),
              !.requests_by_status = Inc(@, entry.status_code),
              !.requests_by_method = Inc(@, entry.method)]

\* AccessLogProcessor._add_ip_record
add_ip_record(a, entry) ==
    [a EXCEPT !.ip_records = Append(@, [ip |-> entry.ip, country |-> entry.country, date |-> entry.date,
                                         http_code |-> entry.status_code, method |-> entry.method,
                                         query |-> entry.url])]

\* _process_line resolving the country before the self-IP check
ProcessLineResolveFirst(a, entry, rd, my_ips, excluded) ==
    LET
        res == IF rd = "absent" THEN [raised |-> FALSE, value |-> entry.country] ELSE get_country(rd, entry.ip)
        call == IF rd = "absent" THEN <<>> ELSE <<[ip |-> entry.ip, raised |-> res.raised, value |-> res.value]>>
        located == [entry EXCEPT !.country = res.value]
    IN IF ~entry.ok THEN [access |-> a, calls |-> <<>>, raised |-> FALSE]
       ELSE IF res.raised THEN [access |-> a, calls |-> call, raised |-> TRUE]
       ELSE IF SkipMyIp(entry.ip, my_ips) THEN [access |-> a, calls |-> call, raised |-> FALSE]
       ELSE IF SkipCountry(located.country, excluded) THEN [access |-> a, calls |-> call, raised |-> FALSE]
       ELSE [access |-> add_ip_record(update_stats(a, located), located), calls |-> call, raised |-> FALSE]

\* _process_line checking the exclusion list before the country is resolved
ProcessLineExcludeUnresolved(a, entry, rd, my_ips, excluded) ==
    LET
        res == IF rd = "absent" THEN [raised |-> FALSE, value |-> entry.country] ELSE get_country(rd, entry.ip)
        call == IF rd = "absent" THEN <<>> ELSE <<[ip |-> entry.ip, raised |-> res.raised, value |-> res.value]>>
        located == [entry EXCEPT !.country = res.value]
    IN IF ~entry.ok THEN [access |-> a, calls |-> <<>>, raised |-> FALSE]
       ELSE IF SkipMyIp(entry.ip, my_ips) THEN [access |-> a, calls |-> <<>>, raised |-> FALSE]
       ELSE IF res.raised THEN [access |-> a, calls |-> call, raised |-> TRUE]
       ELSE IF SkipCountry(entry.country, excluded) THEN [access |-> a, calls |-> call, raised |-> FALSE]
       ELSE [access |-> add_ip_record(update_stats(a, located), located), calls |-> call, raised |-> FALSE]

\* _process_line counting the line before looking at the parser's result
ProcessLineCountUnparsed(a, entry, rd, my_ips, excluded) ==
    LET
        res == IF rd = "absent" THEN [raised |-> FALSE, value |-> entry.country] ELSE get_country(rd, entry.ip)
        call == IF rd = "absent" THEN <<>> ELSE <<[ip |-> entry.ip, raised |-> res.raised, value |-> res.value]>>
        located == [entry EXCEPT !.country = res.value]
    IN IF ~entry.ok THEN [access |-> [a EXCEPT !.total_requests = @ + 1], calls |-> <<>>, raised |-> FALSE]
       ELSE IF SkipMyIp(entry.ip, my_ips) THEN [access |-> a, calls |-> <<>>, raised |-> FALSE]
       ELSE IF res.raised THEN [access |-> a, calls |-> call, raised |-> TRUE]
       ELSE IF SkipCountry(located.country, excluded) THEN [access |-> a, calls |-> call, raised |-> FALSE]
       ELSE [access |-> add_ip_record(update_stats(a, located), located), calls |-> call, raised |-> FALSE]

\* AccessLogProcessor._process_line from the parser's result on: the processor
\* state after the line, the get_country calls it made, and whether it raised
process_line(a, entry, rd, my_ips, excluded) ==
    LET
        res == IF rd = "absent" THEN [raised |-> FALSE, value |-> entry.country] ELSE get_country(rd, entry.ip)
        call == IF rd = "absent" THEN <<>> ELSE <<[ip |-> entry.ip, raised |-> res.raised, value |-> res.value]>>
        located == [entry EXCEPT !.country = res.value]
    IN IF ~entry.ok THEN [access |-> a, calls |-> <<>>, raised |-> FALSE]
       ELSE IF SkipMyIp(entry.ip, my_ips) THEN [access |-> a, calls |-> <<>>, raised |-> FALSE]
       ELSE IF res.raised THEN [access |-> a, calls |-> call, raised |-> TRUE]
       ELSE IF SkipCountry(located.country, excluded) THEN [access |-> a, calls |-> call, raised |-> FALSE]
       ELSE [access |-> add_ip_record(update_stats(a, located), located), calls |-> call, raised |-> FALSE]

AccessProcessLine(n) ==
    /\ constructed /\ kind = "access" /\ Len(processed) < MaxLines
    /\ LET r == process_line(access, ParsedAccess[n], Rd, my_ip_list, exclude_countries)
       IN /\ access' = r.access
          /\ lookups' = lookups \o r.calls
          /\ raised' = r.raised
    /\ processed' = Append(processed, n)
    /\ UNCHANGED <<kind, db_state, with_geoip, constructed, geoip_manager, reader, my_ip_list,
                   exclude_countries, error, successful_requests, batch_vars>>

(* --------------------------- error processor --------------------------- *)
\* ErrorLogProcessor._update_stats
error_update_stats(e, entry) ==
    [e EXCEPT !.total_errors = @ + 1,
              !.errors_by_level = Inc(@, entry.level),
              !.errors_by_hour = Inc(@, entry.hour),
              !.errors_by_date = Inc(@, entry.date),
              !.top_error_messages = Inc(@, entry.message),
              !.errors_by_pid = Inc(@, entry.pid),
              !.errors_by_country = Inc(@, entry.country),
              !.errors_by_ip = Inc(@, entry.client_ip),
              !.errors_by_url = Inc(@, entry.url_path),
              !.errors_by_method = Inc(@, entry.http_method),
              !.errors_by_error_type = Inc(@, entry.error_type)]

\* ErrorLogProcessor._process_line from the parser's result p on; the lists of
\* the configuration are not among the inputs of the method
error_process_line(e, p) ==
    IF p.raised \/ ~p.entry.ok THEN e ELSE error_update_stats(e, p.entry)

\* the get_country call parse_error_line made, if any
ErrorCalls(p) ==
    IF ~p.looked_up THEN <<>>
    ELSE <<[ip |-> p.ip, raised |-> p.raised, value |-> IF p.raised THEN <<>> ELSE p.entry.country]>>

ErrorProcessLine(n) ==
    /\ constructed /\ kind = "error" /\ Len(processed) < MaxLines
    /\ error' = error_process_line(error, ParsedError[n][Rd])
    /\ lookups' = lookups \o ErrorCalls(ParsedError[n][Rd])
    /\ raised' = ParsedError[n][Rd].raised
    /\ processed' = Append(processed, n)
    /\ UNCHANGED <<kind, db_state, with_geoip, constructed, geoip_manager, reader, my_ip_list,
                   exclude_countries, access, successful_requests, batch_vars>>

(* --------------------- successful-request analyzer --------------------- *)
\* The body of the loop of _process_file from the parser's result p on: the
\* list after the line.  The
\* country is resolved inside _parse_log_line, before either check.
success_process_line(reqs, p, my_ips, excluded) ==
    IF ~p.entry.ok THEN reqs
    ELSE IF InList(p.entry.ip, my_ips) THEN reqs
    ELSE IF InList(p.entry.country, excluded) THEN reqs
    ELSE Append(reqs, p.entry)

\* the get_country call _parse_log_line made, if any
SuccessCalls(p) ==
    IF ~p.looked_up THEN <<>>
    ELSE <<[ip |-> p.ip, raised |-> ~p.entry.ok, value |-> IF p.entry.ok THEN p.entry.country ELSE <<>>]>>

SuccessProcessLine(n) ==
    /\ constructed /\ kind = "success" /\ Len(processed) < MaxLines
    /\ successful_requests' = success_process_line(successful_requests, ParsedSuccess[n][Rd], my_ip_list, exclude_countries)
    /\ lookups' = lookups \o SuccessCalls(ParsedSuccess[n][Rd])
    /\ raised' = ParsedSuccess[n][Rd].raised
    /\ processed' = Append(processed, n)
    /\ UNCHANGED <<kind, db_state, with_geoip, constructed, geoip_manager, reader, my_ip_list,
                   exclude_countries, access, error, batch_vars>>

Next ==
    \/ Construct
    \/ \E n \in DOMAIN AccessLineSeq : AccessProcessLine(n)
    \/ \E n \in DOMAIN ErrorLineSeq : ErrorProcessLine(n)
    \/ \E n \in DOMAIN SuccessLineSeq : SuccessProcessLine(n)

Spec == Init /\ [][Next]_vars

(* ======================== the batch over log files ===================== *)
(* analyze_logs: get_log_files, then one process_file per path, then the   *)
(* snapshot.  A path is the text of os.path.join(log_dir, name).           *)
LogDirPath == <<"l", "o", "g", "s">>

\* the names of the model; old.access.log holds the prefix without starting
\* with it
Names ==
    [access_log |-> <<"a", "c", "c", "e", "s", "s", ".", "l", "o", "g">>,
     access_log_10 |-> <<"a", "c", "c", "e", "s", "s", ".", "l", "o", "g", ".", "1", "0">>,
     access_log_2 |-> <<"a", "c", "c", "e", "s", "s", ".", "l", "o", "g", ".", "2">>,
     access_log_2_gz |-> <<"a", "c", "c", "e", "s", "s", ".", "l", "o", "g", ".", "2", ".", "g", "z">>,
     error_log |-> <<"e", "r", "r", "o", "r", ".", "l", "o", "g">>,
     error_log_1 |-> <<"e", "r", "r", "o", "r", ".", "l", "o", "g", ".", "1">>,
     error_log_1_gz |-> <<"e", "r", "r", "o", "r", ".", "l", "o", "g", ".", "1", ".", "g", "z">>,
     old_access_log |-> <<"o", "l", "d", ".", "a", "c", "c", "e", "s", "s", ".", "l", "o", "g">>]

\* the directories of the model: none, an empty one, a plain and a gzip copy
\* of the same two files, rotated files next to a foreign name, and a foreign
\* name alone
SampleDirs ==
    {[exists |-> FALSE, names |-> {}],
     [exists |-> TRUE, names |-> {}],
     [exists |-> TRUE, names |-> {Names.access_log_2, Names.error_log_1}],
     [exists |-> TRUE, names |-> {Names.access_log_2_gz, Names.error_log_1_gz}],
     [exists |-> TRUE, names |-> {Names.access_log, Names.access_log_10, Names.access_log_2_gz, Names.old_access_log, Names.error_log}],
     [exists |-> TRUE, names |-> {Names.error_log, Names.error_log_1_gz, Names.access_log}],
     [exists |-> TRUE, names |-> {Names.old_access_log}]}

\* ord(c): the place of a character of a path among the code points
CodePoint(c) ==
    CHOOSE i \in 1..39 :
        <<".", "/", "0", "1", "2", "3", "4", "5", "6", "7", "8", "9", "_", "a", "b", "c", "d", "e", "f", "g", "h",
          "i", "j", "k", "l", "m", "n", "o", "p", "q", "r", "s", "t", "u", "v", "w", "x", "y", "z">>[i] = c

\* a < b on str
RECURSIVE StrLess(_, _)
StrLess(a, b) ==
    IF b = <<>> THEN FALSE
    ELSE IF a = <<>> THEN TRUE
    ELSE IF a[1] = b[1] THEN StrLess(Tail(a), Tail(b))
    ELSE CodePoint(a[1]) < CodePoint(b[1])

\* str.startswith
StartsWith(text, prefix) == Len(text) >= Len(prefix) /\ SubSeq(text, 1, Len(prefix)) = prefix

\* filepath.endswith('.gz')
IsGz(path) == Len(path) >= 3 /\ SubSeq(path, Len(path) - 2, Len(path)) = <<".", "g", "z">>

\* os.path.join(log_dir, fname)
PathJoin(dir_path, fname) == dir_path \o <<"/">> \o fname

\* the orders os.listdir may list a set of names in
RECURSIVE ListDir(_)
ListDir(names) ==
    IF names = {} THEN {<<>>}
    ELSE UNION {{<<fname>> \o rest : rest \in ListDir(names \ {fname})} : fname \in names}

RECURSIVE InsertSorted(_, _)
InsertSorted(list, x) ==
    IF list = <<>> THEN <<x>>
    ELSE IF StrLess(x, list[1]) THEN <<x>> \o list
    ELSE <<list[1]>> \o InsertSorted(Tail(list), x)

\* sorted(files)
RECURSIVE sorted(_)
sorted(list) ==
    IF list = <<>> THEN <<>>
    ELSE InsertSorted(sorted(SubSeq(list, 1, Len(list) - 1)), list[Len(list)])

\* the loop of get_log_files: the joined paths of the names that start with
\* the prefix, in listing order
RECURSIVE MatchingPaths(_, _)
MatchingPaths(listing, prefix) ==
    IF listing = <<>> THEN <<>>
    ELSE (IF StartsWith(listing[1], prefix) THEN <<PathJoin(LogDirPath, listing[1])>> ELSE <<>>)
         \o MatchingPaths(Tail(listing), prefix)

\* get_log_files taking every name of the directory
GetLogFilesNoPrefix(dir, listing, prefix) ==
    IF ~dir.exists THEN <<>> ELSE sorted([i \in DOMAIN listing |-> PathJoin(LogDirPath, listing[i])])

\* get_log_files returning the paths in listing order
GetLogFilesUnsorted(dir, listing, prefix) ==
    IF ~dir.exists THEN <<>> ELSE MatchingPaths(listing, prefix)

\* FileProcessor.get_log_files(log_dir, prefix), listing being what os.listdir
\* returned
get_log_files(dir, listing, prefix) ==
    IF ~dir.exists THEN <<>> ELSE sorted(MatchingPaths(listing, prefix))

\* the prefix each analyzer passes to get_log_files
Prefix(k) == IF k = "error" THEN <<"e", "r", "r", "o", "r", ".", "l", "o", "g">> ELSE <<"a", "c", "c", "e", "s", "s", ".", "l", "o", "g">>

(* ----------------------------- file contents --------------------------- *)
\* the lines each file of the model holds, as positions in the sample lines
\* of the analyzer that reads it; a .gz file holds the lines of the file of
\* the same name without the suffix
FileLines(fname) ==
    IF fname \in {Names.access_log, Names.error_log} THEN <<1, 2>>
    ELSE IF fname = Names.access_log_10 THEN <<4, 2>>
    ELSE IF fname \in {Names.access_log_2, Names.access_log_2_gz} THEN <<1, 7, 3, 1>>
    ELSE IF fname \in {Names.error_log_1, Names.error_log_1_gz} THEN <<5, 6, 1>>
    ELSE <<1>>

\* what is on disk under a name: the text itself, or its gzip compression
FileBytes(fname) == [gzip |-> IsGz(fname), lines |-> FileLines(fname)]

\* the text a compressed file reads as when it is opened as plain text with
\* errors='ignore': no line of the original survives
JunkLine == <<"?", "K", "#", "\n">>

\* position 0 stands for the unreadable text of a compressed file
Junk == 0

\* open(filepath, 'r', encoding='utf-8', errors='ignore'): the lines the
\* iteration yields and whether it then raises
TextOpen(bytes) ==
    IF bytes.gzip THEN [lines |-> <<Junk>>, fails |-> FALSE] ELSE [lines |-> bytes.lines, fails |-> FALSE]

\* gzip.open(filepath, 'rt', encoding='utf-8', errors='ignore'): reading what
\* is no gzip stream raises BadGzipFile before the first line
GzipOpen(bytes) ==
    IF bytes.gzip THEN [lines |-> bytes.lines, fails |-> FALSE] ELSE [lines |-> <<>>, fails |-> TRUE]

\* os.path.basename
BaseName(path) == SubSeq(path, Len(LogDirPath) + 2, Len(path))

\* FileProcessor.open_log_file
open_log_file(path) ==
    IF IsGz(path) THEN GzipOpen(FileBytes(BaseName(path))) ELSE TextOpen(FileBytes(BaseName(path)))

\* the file at this path has the fault of this type: "gone" (deleted after
\* the listing), "unreadable" (open raises) or "broken" (reading raises after
\* the first line)
Faulty(path, type) == fault.type = type /\ path = PathJoin(LogDirPath, fault.name)

\* what the loop over the lines of the file sees: the access and error
\* processors read through open_log_file, _process_file through open()
Contents(k, path) ==
    Bind(IF k = "success" THEN TextOpen(FileBytes(BaseName(path))) ELSE open_log_file(path), LAMBDA f :
        IF Faulty(path, "broken") /\ f.lines # <<>> THEN [lines |-> <<f.lines[1]>>, fails |-> TRUE] ELSE f)

\* the file the loop over files is at
CurrentPath == files[file_idx]

\* the parser of the analyzer on the line at position n
ParsedAt(k, n, rd) ==
    IF k = "access" THEN (IF n = Junk THEN parse_access_line(JunkLine) ELSE ParsedAccess[n])
    ELSE IF k = "error" THEN (IF n = Junk THEN parse_error_line(JunkLine, rd) ELSE ParsedError[n][rd])
    ELSE (IF n = Junk THEN parse_log_line(JunkLine, rd) ELSE ParsedSuccess[n][rd])

(* ------------------------------- snapshots ----------------------------- *)
\* the length of the top lists: most_common(10)
TopN == 10

\* the position of the first pair of the largest count
FirstLargest(t) ==
    CHOOSE i \in DOMAIN t : (\A j \in DOMAIN t : t[j][2] <= t[i][2]) /\ (\A j \in 1..(i - 1) : t[j][2] < t[i][2])

\* most_common without the limit
RECURSIVE MostCommonAll(_, _)
MostCommonAll(t, n) ==
    IF t = <<>> THEN <<>>
    ELSE Bind(FirstLargest(t), LAMBDA i : <<t[i][1]>> \o MostCommonAll(SubSeq(t, 1, i - 1) \o SubSeq(t, i + 1, Len(t)), n))

\* [key for key, _ in Counter(t).most_common(n)]: the keys of the n largest
\* counts, largest first, equal counts in insertion order
RECURSIVE most_common(_, _)
most_common(t, n) ==
    IF n = 0 \/ t = <<>> THEN <<>>
    ELSE Bind(FirstLargest(t), LAMBDA i : <<t[i][1]>> \o most_common(SubSeq(t, 1, i - 1) \o SubSeq(t, i + 1, Len(t)), n - 1))

\* Counter(iterable)
RECURSIVE Counter(_)
Counter(keys) == IF keys = <<>> THEN <<>> ELSE Inc(Counter(SubSeq(keys, 1, Len(keys) - 1)), keys[Len(keys)])

\* get_stats taking the number of accepted entries for the unique-IP figure
AccessGetStatsTotal(a) ==
    [ok |-> TRUE, total_unique_ips |-> a.total_requests, total_requests |-> a.total_requests,
     weekly_stats |-> a.weekly_stats, top_countries |-> most_common(a.requests_by_country, TopN),
     requests_by_country |-> a.requests_by_country, requests_by_hour |-> a.requests_by_hour,
     requests_by_date |-> a.requests_by_date, requests_by_status |-> a.requests_by_status,
     requests_by_method |-> a.requests_by_method]

\* AccessLogProcessor.get_stats
access_get_stats(a) ==
    [ok |-> TRUE, total_unique_ips |-> Cardinality(a.unique_ips), total_requests |-> a.total_requests,
     weekly_stats |-> a.weekly_stats, top_countries |-> most_common(a.requests_by_country, TopN),
     requests_by_country |-> a.requests_by_country, requests_by_hour |-> a.requests_by_hour,
     requests_by_date |-> a.requests_by_date, requests_by_status |-> a.requests_by_status,
     requests_by_method |-> a.requests_by_method]

\* SuccessfulRequestAnalyzer._generate_stats
generate_stats(reqs) ==
    IF reqs = <<>>
    THEN [ok |-> TRUE, total_successful_requests |-> 0, unique_ips |-> 0, successful_requests_by_country |-> <<>>,
          successful_requests_by_date |-> <<>>, successful_requests_by_hour |-> <<>>,
          successful_requests_by_method |-> <<>>, successful_requests_by_url |-> <<>>,
          top_successful_countries |-> <<>>, top_successful_urls |-> <<>>, successful_requests_details |-> <<>>]
    ELSE [ok |-> TRUE, total_successful_requests |-> Len(reqs),
          unique_ips |-> Cardinality({reqs[i].ip : i \in DOMAIN reqs}),
          successful_requests_by_country |-> Counter([i \in DOMAIN reqs |-> reqs[i].country]),
          successful_requests_by_date |-> Counter([i \in DOMAIN reqs |-> reqs[i].date]),
          successful_requests_by_hour |-> Counter([i \in DOMAIN reqs |-> reqs[i].hour]),
          successful_requests_by_method |-> Counter([i \in DOMAIN reqs |-> reqs[i].method]),
          successful_requests_by_url |-> Counter([i \in DOMAIN reqs |-> reqs[i].url]),
          top_successful_countries |-> most_common(Counter([i \in DOMAIN reqs |-> reqs[i].country]), TopN),
          top_successful_urls |-> most_common(Counter([i \in DOMAIN reqs |-> reqs[i].url]), TopN),
          successful_requests_details |-> reqs]

\* what analyze_logs returns: get_stats of the processor (the error processor
\* returns its stats object as it is) or _generate_stats
GetStats(k) ==
    IF k = "access" THEN access_get_stats(access)
    ELSE IF k = "error" THEN [ok |-> TRUE, stats |-> error]
    ELSE generate_stats(successful_requests)

\* get_detailed_records keeping no record for the first retained entry
GetDetailedRecordsSkipFirst(reqs) == [j \in 1..(Len(reqs) - 1) |-> [ip |-> reqs[j + 1].ip, url |-> reqs[j + 1].url]]

\* SuccessfulRequestAnalyzer.get_detailed_records: one record per retained
\* entry, in list order
get_detailed_records(reqs) ==
    [j \in DOMAIN reqs |->
        [ip |-> reqs[j].ip,
         timestamp |-> FormatDate(reqs[j].timestamp) \o <<" ">> \o Pad2(reqs[j].timestamp.hour) \o <<":">>
                       \o Pad2(reqs[j].timestamp.minute) \o <<":">> \o Pad2(reqs[j].timestamp.second),
         method |-> reqs[j].method, url |-> reqs[j].url, status_code |-> reqs[j].status_code,
         country |-> reqs[j].country, date |-> reqs[j].date, hour |-> reqs[j].hour,
         user_agent |-> reqs[j].user_agent, referer |-> reqs[j].referer,
         response_size |-> IF reqs[j].response_size.ok THEN reqs[j].response_size.value ELSE 0]]

(* ------------------------------ analyze_logs --------------------------- *)
\* a with statement that leaves the handle open
WithExitLeak(open_handles, path) == open_handles

\* leaving "with open_log_file(filepath) as f": the handle is closed, however
\* the block is left
WithExit(open_handles, path) == open_handles \ {path}

\* an exception of a file that nothing catches: analyze_logs is left by it
ExceptNothing == "aborted"

\* "except Exception as e: print(...)": the call for the file returns and the
\* loop over the files goes on
ExceptException == "loop"

\* get_exclude_countries without upper()
RECURSIVE GetExcludeCountriesNoUpper(_)
GetExcludeCountriesNoUpper(country_str) ==
    IF ~country_str.ok \/ country_str.text = <<>> THEN <<>>
    ELSE Bind(CHOOSE c \in 1..(Len(country_str.text) + 1) :
                 /\ c = Len(country_str.text) + 1 \/ country_str.text[c] = ","
                 /\ \A i \in 1..(c - 1) : country_str.text[i] # ",", LAMBDA c :
         Bind({i \in 1..(c - 1) : country_str.text[i] \notin Whitespace}, LAMBDA keep :
            (IF keep = {} THEN <<>>
             ELSE <<SubSeq(country_str.text, CHOOSE i \in keep : \A j \in keep : i <= j,
                                   CHOOSE i \in keep : \A j \in keep : i >= j)>>)
            \o GetExcludeCountriesNoUpper([ok |-> TRUE, text |-> SubSeq(country_str.text, c + 1, Len(country_str.text))])))

\* ConfigManager.get_exclude_countries, country_str being what
\* os.getenv('EXCLUDE_COUNTRIES') gave (no value when the variable is unset):
\* [c.strip().upper() for c in country_str.split(',') if c.strip()], piece by
\* piece from the left
RECURSIVE get_exclude_countries(_)
get_exclude_countries(country_str) ==
    IF ~country_str.ok \/ country_str.text = <<>> THEN <<>>
    ELSE Bind(CHOOSE c \in 1..(Len(country_str.text) + 1) :
                 /\ c = Len(country_str.text) + 1 \/ country_str.text[c] = ","
                 /\ \A i \in 1..(c - 1) : country_str.text[i] # ",", LAMBDA c :
         Bind({i \in 1..(c - 1) : country_str.text[i] \notin Whitespace}, LAMBDA keep :
            (IF keep = {} THEN <<>>
             ELSE <<UpperStr(SubSeq(country_str.text, CHOOSE i \in keep : \A j \in keep : i <= j,
                                            CHOOSE i \in keep : \A j \in keep : i >= j))>>)
            \o get_exclude_countries([ok |-> TRUE, text |-> SubSeq(country_str.text, c + 1, Len(country_str.text))])))

\* the EXCLUDE_COUNTRIES settings of the model: unset, "us", "Unknown" and
\* " kr , unknown,,"
ExcludeSettings ==
    {NoValue, [ok |-> TRUE, text |-> <<"u", "s">>], [ok |-> TRUE, text |-> <<"U", "n", "k", "n", "o", "w", "n">>],
     [ok |-> TRUE, text |-> <<" ", "k", "r", " ", ",", " ", "u", "n", "k", "n", "o", "w", "n", ",", ",">>]}

BatchInit ==
    /\ kind \in {"access", "error", "success"}
    /\ with_geoip = TRUE
    /\ db_state \in {"missing", "corrupt", "ok"}
    /\ my_ip_list \in {List(<<>>), List(<<IP1>>)}
    /\ exclude_countries \in {List(get_exclude_countries(country_str)) : country_str \in ExcludeSettings}
    /\ log_dir \in SampleDirs
    /\ fault \in {NoFault} \cup {[name |-> fname, type |-> type] :
                                    fname \in {f \in log_dir.names : StartsWith(f, Prefix(kind))}, type \in {"gone", "unreadable", "broken"}}
    /\ constructed = FALSE
    /\ geoip_manager = "unset"
    /\ reader = "none"
    /\ access = NewAccess
    /\ error = NewError
    /\ successful_requests = <<>>
    /\ processed = <<>>
    /\ lookups = <<>>
    /\ raised = FALSE
    /\ BatchIdle

\* analyze_logs up to its loop: the sorted list of the files to process
AnalyzeLogs(listing) ==
    /\ constructed /\ pc = "idle"
    /\ files' = get_log_files(log_dir, listing, Prefix(kind))
    /\ file_idx' = 1
    /\ pc' = "loop"
    /\ UNCHANGED <<kind, db_state, with_geoip, constructed, geoip_manager, reader, my_ip_list, exclude_countries,
                   access, error, successful_requests, processed, lookups, raised,
                   log_dir, fault, line_idx, handles, reader_closed, snapshot, attempted>>

\* the call for the file returns or raises without a handle having been opened
FileNotOpened(next_pc) ==
    /\ pc' = next_pc
    /\ file_idx' = file_idx + 1
    /\ attempted' = Append(attempted, CurrentPath)
    /\ UNCHANGED <<line_idx, handles>>

\* The start of process_log_file / _process_file for the next file of the
\* list.  process_log_file returns at once when os.path.exists is false; an
\* open that raises is caught by the except clause around the with statement.
OpenFile ==
    /\ pc = "loop" /\ file_idx <= Len(files)
    /\ IF kind # "success" /\ Faulty(CurrentPath, "gone") THEN FileNotOpened("loop")
       ELSE IF Faulty(CurrentPath, "gone") \/ Faulty(CurrentPath, "unreadable") THEN FileNotOpened(ExceptException)
       ELSE /\ handles' = handles \cup {CurrentPath}
            /\ line_idx' = 0
            /\ pc' = "reading"
            /\ UNCHANGED <<file_idx, attempted>>
    /\ UNCHANGED <<kind, db_state, with_geoip, constructed, geoip_manager, reader, my_ip_list, exclude_countries,
                   access, error, successful_requests, processed, lookups, raised,
                   log_dir, fault, files, reader_closed, snapshot>>

\* the line processor of the analyzer on the line at position n: the state of
\* the analyzer after the line, the lookups made, and whether it raised
LineStep(n) ==
    IF kind = "access"
    THEN Bind(process_line(access, ParsedAt("access", n, Rd), Rd, my_ip_list, exclude_countries), LAMBDA r :
            [access |-> r.access, error |-> error, successful_requests |-> successful_requests,
             calls |-> r.calls, raised |-> r.raised])
    ELSE IF kind = "error"
    THEN Bind(ParsedAt("error", n, Rd), LAMBDA p :
            [access |-> access, error |-> error_process_line(error, p), successful_requests |-> successful_requests,
             calls |-> ErrorCalls(p), raised |-> p.raised])
    ELSE Bind(ParsedAt("success", n, Rd), LAMBDA p :
            [access |-> access, error |-> error,
             successful_requests |-> success_process_line(successful_requests, p, my_ip_list, exclude_countries),
             calls |-> SuccessCalls(p), raised |-> p.raised])

\* One turn of "for line in f": the next line goes to the line processor.  A
\* line processor that raises ends the with block: the handle is closed and
\* the except clause takes over.
ReadLine ==
    /\ pc = "reading" /\ line_idx < Len(Contents(kind, CurrentPath).lines)
    /\ access' = LineStep(Contents(kind, CurrentPath).lines[line_idx + 1]).access
    /\ error' = LineStep(Contents(kind, CurrentPath).lines[line_idx + 1]).error
    /\ successful_requests' = LineStep(Contents(kind, CurrentPath).lines[line_idx + 1]).successful_requests
    /\ lookups' = lookups \o LineStep(Contents(kind, CurrentPath).lines[line_idx + 1]).calls
    /\ raised' = FALSE
    /\ processed' = Append(processed, Contents(kind, CurrentPath).lines[line_idx + 1])
    /\ IF LineStep(Contents(kind, CurrentPath).lines[line_idx + 1]).raised
       THEN /\ handles' = WithExit(handles, CurrentPath)
            /\ pc' = ExceptException
            /\ file_idx' = file_idx + 1
            /\ attempted' = Append(attempted, CurrentPath)
            /\ UNCHANGED line_idx
       ELSE /\ line_idx' = line_idx + 1
            /\ UNCHANGED <<pc, file_idx, attempted, handles>>
    /\ UNCHANGED <<kind, db_state, with_geoip, constructed, geoip_manager, reader, my_ip_list, exclude_countries,
                   log_dir, fault, files, reader_closed, snapshot>>

\* the iteration over the file raises: the with block is left by the
\* exception, which the except clause catches
ReadError ==
    /\ pc = "reading" /\ line_idx = Len(Contents(kind, CurrentPath).lines)
    /\ Contents(kind, CurrentPath).fails
    /\ handles' = WithExit(handles, CurrentPath)
    /\ pc' = ExceptException
    /\ file_idx' = file_idx + 1
    /\ attempted' = Append(attempted, CurrentPath)
    /\ UNCHANGED <<kind, db_state, with_geoip, constructed, geoip_manager, reader, my_ip_list, exclude_countries,
                   access, error, successful_requests, processed, lookups, raised,
                   log_dir, fault, files, line_idx, reader_closed, snapshot>>

\* the file is exhausted: the with block ends and the call for the file returns
CloseFile ==
    /\ pc = "reading" /\ line_idx = Len(Contents(kind, CurrentPath).lines)
    /\ ~Contents(kind, CurrentPath).fails
    /\ handles' = WithExit(handles, CurrentPath)
    /\ pc' = "loop"
    /\ file_idx' = file_idx + 1
    /\ attempted' = Append(attempted, CurrentPath)
    /\ UNCHANGED <<kind, db_state, with_geoip, constructed, geoip_manager, reader, my_ip_list, exclude_countries,
                   access, error, successful_requests, processed, lookups, raised,
                   log_dir, fault, files, line_idx, reader_closed, snapshot>>

\* the end of analyze_logs: "return self.processor.get_stats()" and
\* "return self._generate_stats()"
Return ==
    /\ pc = "loop" /\ file_idx > Len(files)
    /\ snapshot' = GetStats(kind)
    /\ pc' = "returned"
    /\ UNCHANGED <<kind, db_state, with_geoip, constructed, geoip_manager, reader, my_ip_list, exclude_countries,
                   access, error, successful_requests, processed, lookups, raised,
                   log_dir, fault, files, file_idx, line_idx, handles, reader_closed, attempted>>

\* __del__ of the analyzer, once its caller has dropped it: "if
\* self.geoip_manager: self.geoip_manager.close()", which closes the reader if
\* there is one
Del ==
    /\ constructed /\ pc \in {"idle", "returned", "aborted"}
    /\ reader_closed' = (Rd = "open")
    /\ pc' = "deleted"
    /\ UNCHANGED <<kind, db_state, with_geoip, constructed, geoip_manager, reader, my_ip_list, exclude_countries,
                   access, error, successful_requests, processed, lookups, raised,
                   log_dir, fault, files, file_idx, line_idx, handles, snapshot, attempted>>

BatchNext ==
    \/ Construct
    \/ \E listing \in ListDir(log_dir.names) : AnalyzeLogs(listing)
    \/ OpenFile
    \/ ReadLine
    \/ ReadError
    \/ CloseFile
    \/ Return
    \/ Del

BatchSpec == BatchInit /\ [][BatchNext]_vars

(* =========================== a second run ============================== *)
\* a second call that starts from a fresh processor
AnalyzeAgainFresh(listing) ==
    /\ constructed /\ pc = "returned" /\ attempted = files
    /\ files' = get_log_files(log_dir, listing, Prefix(kind))
    /\ file_idx' = 1
    /\ pc' = "loop"
    /\ access' = NewAccess
    /\ error' = NewError
    /\ successful_requests' = <<>>
    /\ UNCHANGED <<kind, db_state, with_geoip, constructed, geoip_manager, reader, my_ip_list, exclude_countries,
                   processed, lookups, raised,
                   log_dir, fault, line_idx, handles, reader_closed, snapshot, attempted>>

\* analyze_logs called again on the analyzer that has returned once: the list
\* of files is built anew and the loop runs on the processor (the list of
\* retained entries) as the first call left it; attempted goes on growing
AnalyzeAgain(listing) ==
    /\ constructed /\ pc = "returned" /\ attempted = files
    /\ files' = get_log_files(log_dir, listing, Prefix(kind))
    /\ file_idx' = 1
    /\ pc' = "loop"
    /\ UNCHANGED <<kind, db_state, with_geoip, constructed, geoip_manager, reader, my_ip_list, exclude_countries,
                   access, error, successful_requests, processed, lookups, raised,
                   log_dir, fault, line_idx, handles, reader_closed, snapshot, attempted>>

RerunNext ==
    \/ BatchNext
    \/ \E listing \in ListDir(log_dir.names) : AnalyzeAgain(listing)

RerunSpec == BatchInit /\ [][RerunNext]_vars

(* ===================== the stats object of a processor ================= *)
\* get_stats handing out a copy of the stats: what the caller holds is what
\* the call returned
LiveStatsCopy(a, s) == s

\* What the object a get_stats call returned shows when it is read with the
\* processor in state a, s being what that call left in it.  The object is
\* self.stats: _update_stats goes on writing its total_requests and its
\* requests_by_* tables, its total_unique_ips and top_countries are written
\* by get_stats only, and its weekly_stats is the dict get_stats built, which
\* has the week keys of that call and shares each Counter with the processor.
LiveStats(a, s) ==
    [ok |-> TRUE, total_unique_ips |-> s.total_unique_ips, total_requests |-> a.total_requests,
     weekly_stats |-> [i \in DOMAIN s.weekly_stats |-> <<s.weekly_stats[i][1], Get(a.weekly_stats, s.weekly_stats[i][1])>>],
     top_countries |-> s.top_countries,
     requests_by_country |-> a.requests_by_country, requests_by_hour |-> a.requests_by_hour,
     requests_by_date |-> a.requests_by_date, requests_by_status |-> a.requests_by_status,
     requests_by_method |-> a.requests_by_method]

\* a caller asks the processor for its stats
AccessGetStats ==
    /\ constructed /\ kind = "access"
    /\ snapshot' = access_get_stats(access)
    /\ UNCHANGED <<kind, db_state, with_geoip, constructed, geoip_manager, reader, my_ip_list, exclude_countries,
                   access, error, successful_requests, processed, lookups, raised,
                   log_dir, fault, pc, files, file_idx, line_idx, handles, reader_closed, attempted>>

StatsInit == Init /\ kind = "access"

StatsNext ==
    \/ Construct
    \/ \E n \in DOMAIN AccessLineSeq : AccessProcessLine(n)
    \/ AccessGetStats

StatsSpec == StatsInit /\ [][StatsNext]_vars

(* ============================ the top lists ============================ *)
(* get_stats and _generate_stats on an analyzer whose accepted entries are *)
(* drawn here: up to MaxKeys countries and urls, each met once or twice.   *)
MaxKeys == 11

\* the i-th country of the drawn entries
CountryKey(i) == <<UpperSeq[i], UpperSeq[i]>>

\* the accepted entry of the i-th country, which asks for the i-th url
DrawnEntry(k, i) ==
    [(IF k = "access" THEN ParsedAccess[1] ELSE ParsedSuccess[1]["open"].entry)
        EXCEPT !.country = CountryKey(i), !.url = <<"/", LowerSeq[i]>>]

\* the accepted entries: one per key in order, then one more for every key
\* that is met twice
DrawnEntries(k, count) ==
    [i \in DOMAIN count |-> DrawnEntry(k, i)]
    \o SelectSeq([i \in DOMAIN count |-> DrawnEntry(k, i)],
                 LAMBDA e : \E i \in DOMAIN count : count[i] = 2 /\ e = DrawnEntry(k, i))

\* the access processor after these accepted entries
RECURSIVE AccessOf(_)
AccessOf(entries) ==
    IF entries = <<>> THEN NewAccess
    ELSE add_ip_record(update_stats(AccessOf(SubSeq(entries, 1, Len(entries) - 1)), entries[Len(entries)]),
                       entries[Len(entries)])

TopInit ==
    /\ kind \in {"access", "success"}
    /\ with_geoip = TRUE
    /\ db_state = "ok"
    /\ my_ip_list = List(<<>>)
    /\ exclude_countries = List(<<>>)
    /\ constructed = TRUE
    /\ geoip_manager = "GeoIPManager"
    /\ reader = "open"
    /\ \E n \in 0..MaxKeys : \E count \in [1..n -> {1, 2}] :
          /\ access = (IF kind = "access" THEN AccessOf(DrawnEntries(kind, count)) ELSE NewAccess)
          /\ successful_requests = (IF kind = "success" THEN DrawnEntries(kind, count) ELSE <<>>)
    /\ error = NewError
    /\ processed = <<>>
    /\ lookups = <<>>
    /\ raised = FALSE
    /\ log_dir = [exists |-> TRUE, names |-> {}]
    /\ fault = NoFault
    /\ pc = "loop"
    /\ files = <<>>
    /\ file_idx = 1
    /\ line_idx = 0
    /\ handles = {}
    /\ reader_closed = FALSE
    /\ snapshot = NoValue
    /\ attempted = <<>>

TopSpec == TopInit /\ [][Return]_vars

(* ========================= error classification ======================== *)
(* parse_error_line and _update_stats on error lines whose message is put  *)
(* together from the keywords of extract_error_type, in any order, and     *)
(* from two capitalised spellings that are no keywords.                    *)
MaxKeywords == 2

\* the message naming the pieces of the given numbers in the given order:
\* 1..5 are the keywords in the order extract_error_type asks for them
RECURSIVE KeywordMessage(_)
KeywordMessage(order) ==
    IF order = <<>> THEN <<"o", "p", "e", "n", "(", ")", " ", "f", "a", "i", "l", "e", "d">>
    ELSE KeywordMessage(SubSeq(order, 1, Len(order) - 1)) \o <<" ", "+", " ">>
         \o <<<<"d", "i", "r", "e", "c", "t", "o", "r", "y", " ", "i", "n", "d", "e", "x">>, <<"c", "l", "i", "e", "n", "t", " ", "i", "n", "t", "e", "n", "d", "e", "d", " ", "t", "o", " ", "s", "e", "n", "d", " ", "t", "o", "o", " ", "l", "a", "r", "g", "e", " ", "b", "o", "d", "y">>, <<"c", "o", "n", "n", "e", "c", "t", "i", "o", "n", " ", "r", "e", "f", "u", "s", "e", "d">>,
              <<"t", "i", "m", "e", "o", "u", "t">>, <<"n", "o", "t", " ", "f", "o", "u", "n", "d">>, <<"T", "i", "m", "e", "o", "u", "t">>, <<"N", "o", "t", " ", "F", "o", "u", "n", "d">>>>[order[Len(order)]]

\* the orders a message is put together in: up to MaxKeywords different pieces
KeywordOrders ==
    UNION {{order \in [1..n -> 1..7] : \A i, j \in 1..n : i # j => order[i] # order[j]} : n \in 0..MaxKeywords}

\* ErrorLogProcessor._process_line on the error line with the message of the
\* order, the first line the processor sees
ClassifyLine(order) ==
    /\ constructed /\ kind = "error" /\ processed = <<>>
    /\ Bind(parse_error_line(<<"2", "0", "2", "4", "/", "0", "1", "/", "1", "0", " ", "1", "3", ":", "4", "5", ":", "0", "2", " ", "[", "e", "r", "r", "o", "r", "]", " ", "1", "2", "3", "4", "#", "0", ":", " ", "*", "5", " ">> \o KeywordMessage(order)
                             \o <<",", " ", "c", "l", "i", "e", "n", "t", ":", " ", "1", ".", "1", ".", "1", ".", "1", ",", " ", "s", "e", "r", "v", "e", "r", ":", " ", "s", ",", " ", "r", "e", "q", "u", "e", "s", "t", ":", " ", "\"", "G", "E", "T", " ", "/", "a", " ", "H", "T", "T", "P", "/", "1", ".", "1", "\"", ",", " ", "h", "o", "s", "t", ":", " ", "\"", "h", "\"", "\n">>, Rd),
            LAMBDA p : /\ error' = error_process_line(error, p)
                       /\ lookups' = lookups \o ErrorCalls(p)
                       /\ raised' = p.raised)
    /\ processed' = <<order>>
    /\ UNCHANGED <<kind, db_state, with_geoip, constructed, geoip_manager, reader, my_ip_list,
                   exclude_countries, access, successful_requests, batch_vars>>

\* an error analyzer before its construction
ClassifyInit == Init /\ kind = "error" /\ my_ip_list = NoneList /\ exclude_countries = NoneList

ClassifyNext ==
    \/ Construct
    \/ \E order \in KeywordOrders : ClassifyLine(order)

ClassifySpec == ClassifyInit /\ [][ClassifyNext]_vars

(* ======================= properties of the program ===================== *)
\* the step just taken processed line number n
Processed(n) == processed' = Append(processed, n)

\* the country an address resolves to: the backend's code, "Unknown" when
\* there is no manager, no open reader, the lookup fails or the code is empty
ResolvedCountry(ip) ==
    IF geoip_manager # "GeoIPManager" \/ reader # "open" THEN Unknown
    ELSE IF ReaderCountry(ip).raised \/ ReaderCountry(ip).iso_code = <<>> THEN Unknown
    ELSE ReaderCountry(ip).iso_code

\* the entry passes the self-IP and the country filter of the configuration
PassesFilters(ip) == ~InList(ip, my_ip_list) /\ ~InList(ResolvedCountry(ip), exclude_countries)

\* table t counts, per key, the processed lines that satisfy Acc and whose field F is the key
Counts(t, F(_), Acc(_)) ==
    /\ Len(t) = Cardinality(Keys(t))
    /\ Keys(t) = {F(i) : i \in {j \in DOMAIN processed : Acc(j)}}
    /\ \A k \in Keys(t) : Get(t, k) >= 0 /\ Get(t, k) = Cardinality({i \in DOMAIN processed : Acc(i) /\ F(i) = k})

AccessEntryAt(i) == ParsedAccess[processed[i]]

AccessAccepted(i) == AccessEntryAt(i).ok /\ PassesFilters(AccessEntryAt(i).ip)

ErrorEntryAt(i) == ParsedError[processed[i]][Rd].entry

ErrorAccepted(i) == ErrorEntryAt(i).ok /\ PassesFilters(ErrorEntryAt(i).client_ip)

\* C1: the total equals the sum of the counts of every table of its processor,
\* and for the access processor also the sum of all weekly cells
C1_TotalEqualsEverySum ==
    /\ SumValues(access.requests_by_country) = access.total_requests
    /\ SumValues(access.requests_by_hour) = access.total_requests
    /\ SumValues(access.requests_by_date) = access.total_requests
    /\ SumValues(access.requests_by_status) = access.total_requests
    /\ SumValues(access.requests_by_method) = access.total_requests
    /\ SumNested(access.weekly_stats) = access.total_requests
    /\ SumValues(error.errors_by_level) = error.total_errors
    /\ SumValues(error.errors_by_hour) = error.total_errors
    /\ SumValues(error.errors_by_date) = error.total_errors
    /\ SumValues(error.top_error_messages) = error.total_errors
    /\ SumValues(error.errors_by_pid) = error.total_errors
    /\ SumValues(error.errors_by_country) = error.total_errors
    /\ SumValues(error.errors_by_ip) = error.total_errors
    /\ SumValues(error.errors_by_url) = error.total_errors
    /\ SumValues(error.errors_by_method) = error.total_errors
    /\ SumValues(error.errors_by_error_type) = error.total_errors

\* two accepted access lines that differ in every dimension but the hour
C1_Witness ==
    /\ kind = "access" /\ access.total_requests = 2
    /\ Len(access.requests_by_method) = 2 /\ Len(access.weekly_stats) = 2 /\ Len(access.requests_by_hour) = 1

\* C2: every count of every table, access and error, is the number of processed
\* lines that parsed, passed the self-IP and country filters and carry the key;
\* one accepted line in a fresh processor gives total 1 and one key of count 1
C2_CountsAreAcceptedLines ==
    /\ kind = "access" =>
        /\ access.total_requests = Cardinality({i \in DOMAIN processed : AccessAccepted(i)})
        /\ Counts(access.requests_by_country, LAMBDA i : ResolvedCountry(AccessEntryAt(i).ip), AccessAccepted)
        /\ Counts(access.requests_by_hour, LAMBDA i : AccessEntryAt(i).hour, AccessAccepted)
        /\ Counts(access.requests_by_date, LAMBDA i : AccessEntryAt(i).date, AccessAccepted)
        /\ Counts(access.requests_by_status, LAMBDA i : AccessEntryAt(i).status_code, AccessAccepted)
        /\ Counts(access.requests_by_method, LAMBDA i : AccessEntryAt(i).method, AccessAccepted)
    /\ kind = "error" =>
        /\ error.total_errors = Cardinality({i \in DOMAIN processed : ErrorAccepted(i)})
        /\ Counts(error.errors_by_level, LAMBDA i : ErrorEntryAt(i).level, ErrorAccepted)
        /\ Counts(error.errors_by_hour, LAMBDA i : ErrorEntryAt(i).hour, ErrorAccepted)
        /\ Counts(error.errors_by_date, LAMBDA i : ErrorEntryAt(i).date, ErrorAccepted)
        /\ Counts(error.top_error_messages, LAMBDA i : ErrorEntryAt(i).message, ErrorAccepted)
        /\ Counts(error.errors_by_pid, LAMBDA i : ErrorEntryAt(i).pid, ErrorAccepted)
        /\ Counts(error.errors_by_country, LAMBDA i : ResolvedCountry(ErrorEntryAt(i).client_ip), ErrorAccepted)
        /\ Counts(error.errors_by_ip, LAMBDA i : ErrorEntryAt(i).client_ip, ErrorAccepted)
        /\ Counts(error.errors_by_url, LAMBDA i : ErrorEntryAt(i).url_path, ErrorAccepted)
        /\ Counts(error.errors_by_method, LAMBDA i : ErrorEntryAt(i).http_method, ErrorAccepted)
        /\ Counts(error.errors_by_error_type, LAMBDA i : ErrorEntryAt(i).error_type, ErrorAccepted)

\* the part of C2 the access processor satisfies (its counterpart for the
\* error processor holds only with the filters left out of the count)
C2_AccessCounts == kind = "access" => C2_CountsAreAcceptedLines

C2_ErrorCountsUnfiltered ==
    kind = "error" =>
        /\ error.total_errors = Cardinality({i \in DOMAIN processed : ErrorEntryAt(i).ok})
        /\ Counts(error.errors_by_ip, LAMBDA i : ErrorEntryAt(i).client_ip, LAMBDA i : ErrorEntryAt(i).ok)
        /\ Counts(error.errors_by_country, LAMBDA i : ResolvedCountry(ErrorEntryAt(i).client_ip), LAMBDA i : ErrorEntryAt(i).ok)
        /\ Counts(error.errors_by_error_type, LAMBDA i : ErrorEntryAt(i).error_type, LAMBDA i : ErrorEntryAt(i).ok)

\* C3: an access line whose parsed ip is in the self-IP list changes nothing
\* of the access processor, whatever its address would resolve to
C3_SelfIpLineChangesNothing ==
    [][\A n \in DOMAIN AccessLineSeq :
        (kind = "access" /\ Processed(n) /\ ParsedAccess[n].ok /\ InList(ParsedAccess[n].ip, my_ip_list))
            => access' = access]_vars

\* a self-IP line whose address resolves to a country, processed after an accepted line
C3_Witness ==
    /\ kind = "access" /\ Len(processed) = 2 /\ access.total_requests = 1 /\ Len(access.ip_records) = 1
    /\ ParsedAccess[processed[2]].ok /\ InList(ParsedAccess[processed[2]].ip, my_ip_list)
    /\ ResolvedCountry(ParsedAccess[processed[2]].ip) # Unknown

\* C4: an error entry whose client_ip is in the self-IP list, or whose resolved
\* country is in the exclusion list, changes no error aggregate
C4_ErrorProcessorFilters ==
    [][\A n \in DOMAIN ErrorLineSeq :
        (kind = "error" /\ Processed(n) /\ ParsedError[n][Rd].entry.ok
         /\ ~PassesFilters(ParsedError[n][Rd].entry.client_ip))
            => error' = error]_vars

\* the get_country call for address ip as the history records it
CallFor(ip) == [ip |-> ip, raised |-> FALSE, value |-> ResolvedCountry(ip)]

C6_DroppedIffResolvedCountryExcluded ==
    [][\A n \in DOMAIN AccessLineSeq :
        (kind = "access" /\ Processed(n) /\ ParsedAccess[n].ok /\ ~InList(ParsedAccess[n].ip, my_ip_list)) =>
            /\ access' = access <=> InList(ResolvedCountry(ParsedAccess[n].ip), exclude_countries)
            /\ (exclude_countries.none \/ exclude_countries.items = <<>>) => access' # access]_vars

\* an entry whose lookup failed is dropped because "Unknown" is excluded,
\* after an entry from an address of a country not on the list was kept
C6_Witness ==
    /\ kind = "access" /\ reader = "open" /\ InList(Unknown, exclude_countries) /\ Len(processed) = 2
    /\ ParsedAccess[processed[2]].ok /\ ~InList(ParsedAccess[processed[2]].ip, my_ip_list)
    /\ ReaderCountry(ParsedAccess[processed[2]].ip).raised
    /\ access.total_requests = 1 /\ Keys(access.requests_by_country) = {US}

\* C7: get_country never raises and returns "Unknown" without an open reader,
\* on a failed lookup and on an empty code, the backend's code otherwise; a
\* database that is missing or cannot be opened still yields a manager
C7_GetCountryNeverRaises ==
    /\ ~raised
    /\ \A i \in DOMAIN lookups :
        /\ ~lookups[i].raised
        /\ lookups[i].value =
              IF reader # "open" THEN Unknown
              ELSE IF ReaderCountry(lookups[i].ip).raised THEN Unknown
              ELSE IF ReaderCountry(lookups[i].ip).iso_code = <<>> THEN Unknown
              ELSE ReaderCountry(lookups[i].ip).iso_code
    /\ (constructed /\ with_geoip) => (geoip_manager = "GeoIPManager" /\ (reader = "open" <=> db_state = "ok"))

\* with an open reader: a lookup that failed and one that gave an empty code
C7_Witness ==
    /\ reader = "open" /\ Len(lookups) = 2
    /\ ReaderCountry(lookups[1].ip).raised /\ lookups[1].value = Unknown
    /\ ~ReaderCountry(lookups[2].ip).raised /\ ReaderCountry(lookups[2].ip).iso_code = <<>>
    /\ lookups[2].value = Unknown

\* a manager built over a database that cannot be opened answers "Unknown"
C7_WitnessNoBackend ==
    /\ db_state = "corrupt" /\ geoip_manager = "GeoIPManager" /\ Len(lookups) = 1 /\ lookups[1].value = Unknown
    /\ ~ReaderCountry(lookups[1].ip).raised

\* C8: a line the parser returns no entry for leaves the access and the error
\* processor as they were, and no exception reaches the caller
C8_NoMatchChangesNothing ==
    [][/\ \A n \in DOMAIN AccessLineSeq :
            (kind = "access" /\ Processed(n) /\ ~ParsedAccess[n].ok) => (access' = access /\ ~raised')
       /\ \A n \in DOMAIN ErrorLineSeq :
            (kind = "error" /\ Processed(n) /\ ~ParsedError[n][Rd].raised /\ ~ParsedError[n][Rd].entry.ok)
                => (error' = error /\ ~raised')]_vars

\* a matching line with an unparseable date came after an accepted line
C8_Witness ==
    /\ kind = "access" /\ Len(processed) = 2 /\ access.total_requests = 1
    /\ MatchFull(AccessLineSeq[processed[2]]).ok /\ ~ParsedAccess[processed[2]].ok

\* C9: the full form is tried first and gives the captured ip, date, method,
\* url and status; a line matching the basic form only gives the captured ip
\* and date with method "UNKNOWN", url "/" and status "000"; a line matching
\* neither gives no entry; every entry has country "Unknown"
C9_FullFormThenBasicForm ==
    \A n \in DOMAIN AccessLineSeq :
        (kind = "access" /\ \E i \in DOMAIN processed : processed[i] = n) =>
            LET line == AccessLineSeq[n]
                full == MatchFull(line)
                basic == MatchBasic(line)
                e == ParsedAccess[n]
            IN /\ e.ok => e.country = Unknown
               /\ (e.ok /\ full.ok) =>
                     (e.ip = full.ip /\ e.date = full.date_str /\ e.method = full.method
                      /\ e.url = full.url /\ e.status_code = full.status_code)
               /\ (e.ok /\ ~full.ok) =>
                     (basic.ok /\ e.ip = basic.ip /\ e.date = basic.date_str
                      /\ e.method = <<"U", "N", "K", "N", "O", "W", "N">> /\ e.url = <<"/">> /\ e.status_code = <<"0", "0", "0">>)
               /\ (~full.ok /\ ~basic.ok) => ~e.ok

\* a full-form line and a basic-form line, both kept by the processor
C9_Witness ==
    /\ kind = "access" /\ processed = <<1, 3>> /\ Len(access.ip_records) = 2
    /\ access.ip_records[1].method = <<"G", "E", "T">> /\ access.ip_records[1].query = <<"/", "a">>
    /\ access.ip_records[1].http_code = <<"2", "0", "0">> /\ access.ip_records[1].ip = IP1
    /\ access.ip_records[2].method = <<"U", "N", "K", "N", "O", "W", "N">> /\ access.ip_records[2].query = <<"/">>
    /\ access.ip_records[2].http_code = <<"0", "0", "0">> /\ access.ip_records[2].ip = IP3
    /\ access.ip_records[2].date = <<"1", "0", "/", "J", "a", "n", "/", "2", "0", "2", "4">>

MonthLengths == <<31, 28, 31, 30, 31, 30, 31, 31, 30, 31, 30, 31>>

\* text of the shape dd/Mon/yyyy names a day of the calendar
IsCalendarDate(text) ==
    LET d == 10 * DigitVal(text[1]) + DigitVal(text[2])
        y == 1000 * DigitVal(text[8]) + 100 * DigitVal(text[9]) + 10 * DigitVal(text[10]) + DigitVal(text[11])
    IN \E m \in 1..12 :
          /\ MonthNames[m] = LowerStr(SubSeq(text, 4, 6))
          /\ y >= 1 /\ d >= 1
          /\ d <= MonthLengths[m] + (IF m = 2 /\ ((y % 4 = 0 /\ y % 100 # 0) \/ y % 400 = 0) THEN 1 ELSE 0)

\* C10: when the date text either pattern captured is no calendar date the
\* parser returns no entry, also for a line that matches the full form
C10_InvalidDateRejected ==
    \A n \in DOMAIN AccessLineSeq :
        (kind = "access" /\ \E i \in DOMAIN processed : processed[i] = n) =>
            LET line == AccessLineSeq[n]
            IN /\ (MatchFull(line).ok /\ ~IsCalendarDate(MatchFull(line).date_str)) => ~ParsedAccess[n].ok
               /\ (MatchBasic(line).ok /\ ~IsCalendarDate(MatchBasic(line).date_str)) => ~ParsedAccess[n].ok
               /\ ParsedAccess[n].ok => IsCalendarDate(ParsedAccess[n].date)

\* a full-form line with day 99 and a basic-form line with an unknown month
\* were processed and left nothing behind
C10_Witness ==
    /\ kind = "access" /\ processed = <<5, 6>> /\ access = NewAccess
    /\ MatchFull(A5).ok /\ MatchBasic(A5).ok /\ ~MatchFull(A6).ok /\ MatchBasic(A6).ok

\* text of exactly three decimal digits
IsThreeDigits(text) == Len(text) = 3 /\ \A i \in 1..3 : text[i] \in Digits

\* C11: every entry the access parser returns has a status_code of exactly
\* three decimal digits (the digits captured by the full form, "000" for the
\* basic form), every key of requests_by_status is such a text, and an entry
\* that passes the filters is counted under its status whatever the status is
C11_StatusThreeDigitsNeverFiltered ==
    kind = "access" =>
        /\ \A i \in DOMAIN processed : AccessEntryAt(i).ok =>
              /\ IsThreeDigits(AccessEntryAt(i).status_code)
              /\ MatchFull(AccessLineSeq[processed[i]]).ok =>
                    AccessEntryAt(i).status_code = MatchFull(AccessLineSeq[processed[i]]).status_code
              /\ ~MatchFull(AccessLineSeq[processed[i]]).ok => AccessEntryAt(i).status_code = <<"0", "0", "0">>
        /\ \A k \in Keys(access.requests_by_status) : IsThreeDigits(k)
        /\ \A i \in DOMAIN processed : AccessAccepted(i) => Has(access.requests_by_status, AccessEntryAt(i).status_code)

\* a 404 and a basic-form entry ("000") were both aggregated
C11_Witness ==
    /\ kind = "access" /\ access.total_requests = 2
    /\ Keys(access.requests_by_status) = {<<"4", "0", "4">>, <<"0", "0", "0">>}

\* the text parses as an integer n with 200 <= n < 300
IsSuccessStatus(text) == IsIntText(text) /\ 200 <= IntValue(text) /\ IntValue(text) < 300

\* C12: the successful-request analyzer returns no entry for a line whose
\* status token (token 8) is no integer in [200, 300), so every element of
\* successful_requests has such a status
C12_OnlySuccessStatusRetained ==
    kind = "success" =>
        /\ \A i \in DOMAIN successful_requests : IsSuccessStatus(successful_requests[i].status_code)
        /\ \A i \in DOMAIN processed :
              (Len(Split(SuccessLineSeq[processed[i]])) >= 12 /\ ~IsSuccessStatus(Split(SuccessLineSeq[processed[i]])[9]))
                  => ~ParsedSuccess[processed[i]][Rd].entry.ok
        /\ \A i \in DOMAIN processed :
              ParsedSuccess[processed[i]][Rd].entry.ok =>
                  ParsedSuccess[processed[i]][Rd].entry.status_code = Split(SuccessLineSeq[processed[i]])[9]

\* a 404 line left nothing and a 201 line after it was retained
C12_Witness ==
    /\ kind = "success" /\ Len(processed) = 2 /\ Len(successful_requests) = 1
    /\ Split(SuccessLineSeq[processed[1]])[9] = <<"4", "0", "4">>
    /\ successful_requests[1].status_code = <<"2", "0", "1">>

\* the count of cell (week, country) of a weekly table, 0 when the cell is absent
WeeklyCell(w, week, country) ==
    IF Has(w, week) /\ Has(Get(w, week), country) THEN Get(Get(w, week), country) ELSE 0

\* <<year, month, day>> of a calendar date of the shape dd/Mon/yyyy
DateParts(text) ==
    <<1000 * DigitVal(text[8]) + 100 * DigitVal(text[9]) + 10 * DigitVal(text[10]) + DigitVal(text[11]),
      CHOOSE m \in 1..12 : MonthNames[m] = LowerStr(SubSeq(text, 4, 6)),
      10 * DigitVal(text[1]) + DigitVal(text[2])>>

\* the ordinal of the Thursday of the Monday-to-Sunday week of a date
ThursdayOf(ymd) == Ymd2Ord(ymd[1], ymd[2], ymd[3]) - ((Ymd2Ord(ymd[1], ymd[2], ymd[3]) + 6) % 7) + 3

\* ISO 8601: a week belongs to the year its Thursday is in, and is numbered
\* by the count of that year's Thursdays up to it
IsIsoWeekKey(key, ymd) ==
    \E y \in {ymd[1] - 1, ymd[1], ymd[1] + 1} :
        /\ DaysBeforeYear(y) < ThursdayOf(ymd) /\ ThursdayOf(ymd) <= DaysBeforeYear(y + 1)
        /\ Len(key) = 8 /\ SubSeq(key, 5, 6) = <<"-", "W">>
        /\ \A i \in {1, 2, 3, 4, 7, 8} : key[i] \in Digits
        /\ ToInt(SubSeq(key, 1, 4)) = y
        /\ ToInt(SubSeq(key, 7, 8)) = (ThursdayOf(ymd) - DaysBeforeYear(y) - 1) \div 7 + 1

\* C15: an accepted access entry adds 1 to exactly one cell of weekly_stats,
\* the cell of the ISO year and ISO week of its date and of its country, and
\* leaves every other cell as it was
C15_OneWeeklyCellPerEntry ==
    [][\A n \in DOMAIN AccessLineSeq :
        (kind = "access" /\ Processed(n) /\ ParsedAccess[n].ok /\ PassesFilters(ParsedAccess[n].ip)) =>
            \E week \in Keys(access'.weekly_stats) :
                /\ IsIsoWeekKey(week, DateParts(ParsedAccess[n].date))
                /\ \A week2 \in Keys(access'.weekly_stats) \cup Keys(access.weekly_stats) :
                   \A c \in {US, KR, Unknown} :
                      WeeklyCell(access'.weekly_stats, week2, c) =
                          WeeklyCell(access.weekly_stats, week2, c)
                          + (IF week2 = week /\ c = ResolvedCountry(ParsedAccess[n].ip) THEN 1 ELSE 0)]_vars

\* 31 Dec 2024 counted in week 1 of 2025 and 1 Jan 2023 in week 52 of 2022
C15_Witness ==
    /\ kind = "access" /\ access.total_requests = 2
    /\ Keys(access.weekly_stats) = {<<"2", "0", "2", "5", "-", "W", "0", "1">>, <<"2", "0", "2", "2", "-", "W", "5", "2">>}

(* ---------------------------------- C16 -------------------------------- *)
\* a comes before b in lexicographic order: at the first position where they
\* differ a has ended or has the smaller character
LexBefore(a, b) ==
    \E k \in 1..(Len(b)) :
        /\ \A j \in 1..(k - 1) : j <= Len(a) /\ a[j] = b[j]
        /\ \/ k = Len(a) + 1
           \/ k <= Len(a) /\ CodePoint(a[k]) < CodePoint(b[k])

\* C16: get_log_files(dir, prefix) returns exactly the paths of the directory
\* entries whose name starts with the prefix, each once, in ascending
\* lexicographic order of filename, and the empty list (raising nothing) when
\* the directory does not exist.
C16_GetLogFiles ==
    [][(pc = "idle" /\ pc' = "loop") =>
        /\ {files'[i] : i \in DOMAIN files'} =
               {PathJoin(LogDirPath, fname) : fname \in {f \in log_dir.names : StartsWith(f, Prefix(kind))}}
        /\ \A i, j \in DOMAIN files' :
               i < j => (files'[i] # files'[j] /\ LexBefore(BaseName(files'[i]), BaseName(files'[j])))
        /\ (~log_dir.exists => files' = <<>>)]_vars

\* the three rotated access logs come back in order, the foreign name does not
C16_Witness ==
    /\ pc = "loop"
    /\ kind = "access"
    /\ Names.old_access_log \in log_dir.names
    /\ files = <<PathJoin(LogDirPath, Names.access_log), PathJoin(LogDirPath, Names.access_log_10),
                 PathJoin(LogDirPath, Names.access_log_2_gz)>>

\* a missing directory gives the empty list
C16_WitnessMissing == pc = "loop" /\ ~log_dir.exists /\ files = <<>>

(* ---------------------------------- C17 -------------------------------- *)
\* the lines the files of a list hand to the line processor: none for a file
\* that is gone or cannot be opened, those before the failure for a broken one
RECURSIVE LinesHandedOver(_)
LinesHandedOver(paths) ==
    IF paths = <<>> THEN <<>>
    ELSE (IF Faulty(paths[1], "gone") \/ Faulty(paths[1], "unreadable") THEN <<>>
          ELSE Contents(kind, paths[1]).lines)
         \o LinesHandedOver(Tail(paths))

\* C17: a file that is missing, cannot be opened, or raises while its lines are
\* read or processed never aborts the batch: analyze_logs is never left by an
\* exception, and when it returns it returns a snapshot, has gone through
\* every file of the sorted list in order, and has handed every line of the
\* other files (and the lines before the failure) to the line processor.
C17_FaultStaysInItsFile ==
    /\ pc # "aborted"
    /\ pc = "returned" =>
        /\ snapshot.ok
        /\ attempted = files
        /\ processed = LinesHandedOver(files)

\* the first of three access logs breaks after its first line; the lines of
\* the two later files are aggregated and the snapshot is returned
C17_Witness ==
    /\ pc = "returned"
    /\ kind = "access"
    /\ Len(files) = 3
    /\ Faulty(files[1], "broken")
    /\ my_ip_list = List(<<>>) /\ exclude_countries = List(<<>>)
    /\ processed = <<1, 4, 2, 1, 7, 3, 1>>
    /\ snapshot.total_requests = 6

(* ---------------------------------- C18 -------------------------------- *)
\* C18: when process_log_file returns, no file handle it opened is still
\* open, on every exit path (all lines read, an exception among the lines,
\* the open failing); at most one file handle is open at any time of a batch.
C18_FileHandleReleased ==
    /\ Cardinality(handles) <= 1
    /\ pc = "reading" => handles = {CurrentPath}
    /\ pc # "reading" => handles = {}

\* the call for a file that broke while it was read has returned, the call for
\* the next file has not begun, and no handle is open
C18_Witness ==
    /\ pc = "loop"
    /\ kind = "error"
    /\ Len(attempted) = 1
    /\ Faulty(attempted[1], "broken")
    /\ processed = <<1>>
    /\ file_idx = 2 /\ Len(files) = 2
    /\ handles = {}

(* ---------------------------------- C13 -------------------------------- *)
\* the entry the analyzer's parser made of the i-th line handed over
EntryOfLine(i) ==
    IF kind = "access" THEN ParsedAt("access", processed[i], Rd) ELSE ParsedAt(kind, processed[i], Rd).entry

\* the lines handed over whose entry passed the filters
AcceptedLines == {i \in DOMAIN processed : EntryOfLine(i).ok /\ PassesFilters(EntryOfLine(i).ip)}

\* the unique-IP figure and the total of a returned snapshot
UniqueIpFigure == IF kind = "access" THEN snapshot.total_unique_ips ELSE snapshot.unique_ips

TotalFigure == IF kind = "access" THEN snapshot.total_requests ELSE snapshot.total_successful_requests

\* C13: the unique-IP figure (SuccessfulRequestStats.unique_ips,
\* AccessLogStats.total_unique_ips as get_stats returns it) is the number of
\* distinct ip values among the accepted entries: at most the total, 0 exactly
\* when the total is 0, and not raised by an accepted entry of a seen ip.
C13_UniqueIpsIsCardinality ==
    (pc = "returned" /\ kind \in {"access", "success"}) =>
        /\ TotalFigure = Cardinality(AcceptedLines)
        /\ UniqueIpFigure = Cardinality({EntryOfLine(i).ip : i \in AcceptedLines})
        /\ UniqueIpFigure <= TotalFigure
        /\ (UniqueIpFigure = 0 <=> TotalFigure = 0)

\* three accepted access entries, two of them of the same address
C13_Witness ==
    /\ pc = "returned"
    /\ kind = "access"
    /\ processed = <<1, 7, 3, 1>>
    /\ snapshot.total_requests = 3
    /\ snapshot.total_unique_ips = 2

\* two successful requests of one address
C13_WitnessSuccess ==
    /\ pc = "returned"
    /\ kind = "success"
    /\ snapshot.total_successful_requests = 2
    /\ snapshot.unique_ips = 1

(* ---------------------------------- C19 -------------------------------- *)
\* C19: the geolocation backend handle opened for an analyzer run is released
\* by the end of that run: when analyze_logs has returned control to its
\* caller, the reader has been closed.
C19_ReaderClosedOnReturn ==
    (pc = "returned" /\ geoip_manager = "GeoIPManager" /\ reader = "open") => reader_closed

(* ---------------------------------- C20 -------------------------------- *)
\* the lines the files of a list hold, whether stored plain or compressed
RECURSIVE LinesHeld(_)
LinesHeld(paths) ==
    IF paths = <<>> THEN <<>> ELSE FileBytes(BaseName(paths[1])).lines \o LinesHeld(Tail(paths))

\* the analyzer state after the line processor has seen these lines
RECURSIVE AccessAfter(_, _)
AccessAfter(a, lines) ==
    IF lines = <<>> THEN a
    ELSE AccessAfter(process_line(a, ParsedAt("access", lines[1], Rd), Rd, my_ip_list, exclude_countries).access,
                     Tail(lines))

RECURSIVE ErrorAfter(_, _)
ErrorAfter(e, lines) ==
    IF lines = <<>> THEN e ELSE ErrorAfter(error_process_line(e, ParsedAt("error", lines[1], Rd)), Tail(lines))

RECURSIVE SuccessAfter(_, _)
SuccessAfter(reqs, lines) ==
    IF lines = <<>> THEN reqs
    ELSE SuccessAfter(success_process_line(reqs, ParsedAt("success", lines[1], Rd), my_ip_list, exclude_countries),
                      Tail(lines))

\* the snapshot an analyzer returns for plain files that hold these lines
PlainSnapshot(k, lines) ==
    IF k = "access" THEN access_get_stats(AccessAfter(NewAccess, lines))
    ELSE IF k = "error" THEN [ok |-> TRUE, stats |-> ErrorAfter(NewError, lines)]
    ELSE generate_stats(SuccessAfter(<<>>, lines))

\* C20: for each of the three analyzers, a .gz file and a plain file holding
\* the same lines produce identical aggregate snapshots: the snapshot of a run
\* over readable files is the one plain files with their lines give.
C20_GzipSameAsPlain ==
    (pc = "returned" /\ fault = NoFault) => snapshot = PlainSnapshot(kind, LinesHeld(files))

\* the part of C20 that holds: the access and the error analyzer, which read
\* through open_log_file
C20_AccessErrorGzipSameAsPlain ==
    (pc = "returned" /\ fault = NoFault /\ kind # "success") => snapshot = PlainSnapshot(kind, LinesHeld(files))

\* a compressed access log went through the access analyzer
C20_AccessGzipRead ==
    /\ pc = "returned" /\ fault = NoFault /\ kind = "access"
    /\ files = <<PathJoin(LogDirPath, Names.access_log_2_gz)>>
    /\ snapshot.total_requests = 3

(* ---------------------------------- C14 -------------------------------- *)
\* the place of a key in a table
PlaceOf(t, k) == CHOOSE i \in DOMAIN t : t[i][1] = k

\* top is a top-10 list of table t
IsTopList(top, t) ==
    /\ Len(top) = (IF Len(t) < 10 THEN Len(t) ELSE 10)
    /\ \A i \in DOMAIN top : Has(t, top[i])
    /\ \A i, j \in DOMAIN top : i < j =>
          /\ top[i] # top[j]
          /\ Get(t, top[i]) >= Get(t, top[j])
          /\ (Get(t, top[i]) = Get(t, top[j]) => PlaceOf(t, top[i]) < PlaceOf(t, top[j]))
    /\ \A k \in Keys(t) : (\A i \in DOMAIN top : top[i] # k) => \A i \in DOMAIN top : Get(t, k) <= Get(t, top[i])

\* C14: each top-10 list (top_countries, top_successful_countries,
\* top_successful_urls) has length min(10, number of distinct keys of its
\* table), holds no duplicates and only keys of that table, is ordered by
\* non-increasing count with keys of equal count in first-encountered order,
\* and leaves out no key of a greater count than a key it holds.
C14_TopLists ==
    pc = "returned" =>
        IF kind = "access" THEN IsTopList(snapshot.top_countries, snapshot.requests_by_country)
        ELSE /\ IsTopList(snapshot.top_successful_countries, snapshot.successful_requests_by_country)
             /\ IsTopList(snapshot.top_successful_urls, snapshot.successful_requests_by_url)

\* eleven countries, the first met once and the others twice: the list holds
\* the ten others, in the order they were met
C14_Witness ==
    /\ pc = "returned"
    /\ kind = "access"
    /\ Len(snapshot.requests_by_country) = 11
    /\ Get(snapshot.requests_by_country, CountryKey(1)) = 1
    /\ snapshot.top_countries = [i \in 1..10 |-> CountryKey(i + 1)]

(* ---------------------------------- C21 -------------------------------- *)
\* a snapshot of nothing: total 0, unique-IP count 0, every table and every
\* top list empty
IsEmptySnapshot(k, s) ==
    IF k = "access"
    THEN /\ s.total_requests = 0 /\ s.total_unique_ips = 0
         /\ s.weekly_stats = <<>> /\ s.top_countries = <<>>
         /\ s.requests_by_country = <<>> /\ s.requests_by_hour = <<>> /\ s.requests_by_date = <<>>
         /\ s.requests_by_status = <<>> /\ s.requests_by_method = <<>>
    ELSE IF k = "error"
    THEN /\ s.stats.total_errors = 0
         /\ \A t \in {s.stats.errors_by_level, s.stats.errors_by_hour, s.stats.errors_by_date,
                      s.stats.top_error_messages, s.stats.errors_by_pid, s.stats.errors_by_country,
                      s.stats.errors_by_ip, s.stats.errors_by_url, s.stats.errors_by_method,
                      s.stats.errors_by_error_type} : t = <<>>
    ELSE /\ s.total_successful_requests = 0 /\ s.unique_ips = 0
         /\ s.top_successful_countries = <<>> /\ s.top_successful_urls = <<>>
         /\ s.successful_requests_details = <<>>
         /\ \A t \in {s.successful_requests_by_country, s.successful_requests_by_date,
                      s.successful_requests_by_hour, s.successful_requests_by_method,
                      s.successful_requests_by_url} : t = <<>>

\* C21: when the log directory is missing or holds no file with the kind's
\* prefix, analyze_logs raises nothing and returns an empty result: total 0,
\* unique-IP count 0, every count table empty and every top-N list empty.
C21_NoFilesEmptyResult ==
    /\ ((~log_dir.exists \/ \A f \in log_dir.names : ~StartsWith(f, Prefix(kind))) => pc # "aborted")
    /\ (pc = "returned" /\ (~log_dir.exists \/ \A f \in log_dir.names : ~StartsWith(f, Prefix(kind)))) =>
           (snapshot.ok /\ IsEmptySnapshot(kind, snapshot))

\* the error analyzer has returned from a directory that exists and holds
\* access logs only
C21_Witness ==
    /\ pc = "returned"
    /\ kind = "error"
    /\ log_dir.exists /\ log_dir.names # {}
    /\ \A f \in log_dir.names : ~StartsWith(f, Prefix(kind))
    /\ snapshot.ok /\ snapshot.stats.total_errors = 0

(* ---------------------------------- C26 -------------------------------- *)
\* C26: every entry parse_access_line returns has hour 0, whatever time of
\* day the line carries, so requests_by_hour is empty or has the single key 0
\* with the count total_requests.
C26_HourIsAlwaysZero ==
    kind = "access" =>
        /\ \A i \in DOMAIN processed : AccessEntryAt(i).ok => AccessEntryAt(i).hour = 0
        /\ \/ access.requests_by_hour = <<>> /\ access.total_requests = 0
           \/ access.requests_by_hour = <<<<0, access.total_requests>>>> /\ access.total_requests > 0

\* a line of 13:45:02 and one of 01:00:00 are both counted under hour 0
C26_Witness ==
    /\ kind = "access"
    /\ processed = <<1, 2>>
    /\ access.total_requests = 2
    /\ access.requests_by_hour = <<<<0, 2>>>>

(* ---------------------------------- C24 -------------------------------- *)
\* len(line.split()): the number of maximal runs of non-whitespace
TokenCount(line) ==
    Cardinality({i \in 1..Len(line) : line[i] \notin Whitespace /\ (i = 1 \/ line[i - 1] \in Whitespace)})

\* C24: the successful-request parser never accepts a line of fewer than 12
\* whitespace-separated tokens, even with a 2xx status and a valid timestamp;
\* a common-log-format line of 10 tokens and status 200, which the access
\* parser accepts, yields no successful-request entry.
C24_TwelveTokensNeeded ==
    kind = "success" =>
        /\ \A i \in DOMAIN processed :
              ParsedSuccess[processed[i]][Rd].entry.ok => TokenCount(SuccessLineSeq[processed[i]]) >= 12
        /\ (\A i \in DOMAIN processed : TokenCount(SuccessLineSeq[processed[i]]) < 12) => successful_requests = <<>>

\* the common-log-format line A1 (10 tokens, status 200, accepted by the
\* access parser) has been processed twice and nothing is retained
C24_Witness ==
    /\ kind = "success"
    /\ processed = <<7, 7>>
    /\ SuccessLineSeq[7] = AccessLineSeq[1]
    /\ TokenCount(SuccessLineSeq[7]) = 10
    /\ ParsedAccess[1].ok /\ ParsedAccess[1].status_code = <<"2", "0", "0">>
    /\ successful_requests = <<>>

(* ---------------------------------- C22 -------------------------------- *)
\* the types of the five keywords, in the order of the classification
KeywordTypes ==
    <<<<"D", "i", "r", "e", "c", "t", "o", "r", "y", " ", "I", "n", "d", "e", "x", " ", "F", "o", "r", "b", "i", "d", "d", "e", "n">>, <<"R", "e", "q", "u", "e", "s", "t", " ", "B", "o", "d", "y", " ", "T", "o", "o", " ", "L", "a", "r", "g", "e">>, <<"C", "o", "n", "n", "e", "c", "t", "i", "o", "n", " ", "R", "e", "f", "u", "s", "e", "d">>, <<"T", "i", "m", "e", "o", "u", "t">>, <<"N", "o", "t", " ", "F", "o", "u", "n", "d">>>>

\* the type the claim gives a message put together in this order: that of the
\* keyword of the smallest number among its pieces, "Other" without a keyword
ClaimedType(order) ==
    IF \A i \in DOMAIN order : order[i] > 5 THEN <<"O", "t", "h", "e", "r">>
    ELSE KeywordTypes[CHOOSE k \in 1..5 : /\ \E i \in DOMAIN order : order[i] = k
                                          /\ \A i \in DOMAIN order : order[i] >= k]

\* C22: extract_error_type returns the type of the first keyword, in the fixed
\* order "directory index", "client intended to send too large body",
\* "connection refused", "timeout", "not found", that occurs as a
\* case-sensitive substring of the message, and "Other" when none occurs,
\* wherever in the message the keywords stand.
C22_FirstKeywordInFixedOrder ==
    \A order \in KeywordOrders :
        processed = <<order>> => error.errors_by_error_type = <<<<ClaimedType(order), 1>>>>

\* "not found" stands before "connection refused" in the message and the
\* type is that of "connection refused"
C22_Witness ==
    /\ processed = <<<<5, 3>>>>
    /\ error.total_errors = 1
    /\ error.errors_by_error_type = <<<<<<"C", "o", "n", "n", "e", "c", "t", "i", "o", "n", " ", "R", "e", "f", "u", "s", "e", "d">>, 1>>>>

\* a capitalised spelling alone is no keyword
C22_WitnessCase ==
    /\ processed = <<<<6>>>>
    /\ error.errors_by_error_type = <<<<<<"O", "t", "h", "e", "r">>, 1>>>>

(* ---------------------------------- C23 -------------------------------- *)
\* the j-th accepted line, in processing order
NthAccepted(j) == CHOOSE i \in AcceptedLines : Cardinality({m \in AcceptedLines : m <= i}) = j

\* table t is the frequency count of the values F takes over the list
IsFrequencyCount(t, list, F(_)) ==
    /\ Keys(t) = {F(list[j]) : j \in DOMAIN list}
    /\ \A i \in DOMAIN t : t[i][2] = Cardinality({j \in DOMAIN list : F(list[j]) = t[i][1]})
    /\ \A i, j \in DOMAIN t : t[i][1] = t[j][1] => i = j

\* C23: the successful-request analyzer retains every accepted entry and
\* nothing else, in processing order (files in filename-sorted order, lines in
\* file order): total_successful_requests equals the length of
\* successful_requests_details, each by-dimension table is the frequency count
\* of that list, and get_detailed_records returns exactly one record per
\* retained entry in the same order.
C23_RetainsAcceptedInOrder ==
    kind = "success" =>
        /\ Len(successful_requests) = Cardinality(AcceptedLines)
        /\ \A j \in DOMAIN successful_requests : successful_requests[j] = EntryOfLine(NthAccepted(j))
        /\ Len(get_detailed_records(successful_requests)) = Len(successful_requests)
        /\ \A j \in DOMAIN successful_requests :
              /\ get_detailed_records(successful_requests)[j].ip = successful_requests[j].ip
              /\ get_detailed_records(successful_requests)[j].url = successful_requests[j].url
        /\ pc = "returned" =>
              /\ processed = LinesHandedOver(files)
              /\ snapshot.successful_requests_details = successful_requests
              /\ snapshot.total_successful_requests = Len(snapshot.successful_requests_details)
              /\ IsFrequencyCount(snapshot.successful_requests_by_country, snapshot.successful_requests_details, LAMBDA e : e.country)
              /\ IsFrequencyCount(snapshot.successful_requests_by_date, snapshot.successful_requests_details, LAMBDA e : e.date)
              /\ IsFrequencyCount(snapshot.successful_requests_by_hour, snapshot.successful_requests_details, LAMBDA e : e.hour)
              /\ IsFrequencyCount(snapshot.successful_requests_by_method, snapshot.successful_requests_details, LAMBDA e : e.method)
              /\ IsFrequencyCount(snapshot.successful_requests_by_url, snapshot.successful_requests_details, LAMBDA e : e.url)

\* three files read in sorted order: the two entries of the first file are
\* retained in line order, the first line of the second file yields none and
\* its second line is retained third; there are three detailed records
C23_Witness ==
    /\ pc = "returned"
    /\ kind = "success"
    /\ Len(files) = 3
    /\ Len(processed) >= 4 /\ SubSeq(processed, 1, 4) = <<1, 2, 4, 2>>
    /\ Len(snapshot.successful_requests_details) = 3
    /\ snapshot.successful_requests_details[1].ip # snapshot.successful_requests_details[3].ip
    /\ Len(get_detailed_records(successful_requests)) = 3

(* ---------------------------------- C25 -------------------------------- *)
\* the sample lines of the successful-request analyzer on which a conversion
\* of _parse_log_line raises: strptime on hour 25 (S4), int() on a status that
\* is no integer (S5)
RaisesWhileParsing(n) == n # Junk /\ SuccessLineSeq[n] \in {S4, S5}

\* C25: in the successful-request analyzer, an exception raised while parsing
\* one line is confined to that line: the line yields no entry, the entries
\* already retained are unchanged, and the remaining lines of the same file
\* are still processed (the loop stays in the file, at the next line, with
\* the file still open).
C25_ParseExceptionConfined ==
    [][(kind = "success" /\ pc = "reading" /\ Len(processed') = Len(processed) + 1
        /\ RaisesWhileParsing(processed'[Len(processed')]))
       => /\ ~ParsedAt("success", processed'[Len(processed')], Rd).entry.ok
          /\ successful_requests' = successful_requests
          /\ pc' = "reading" /\ file_idx' = file_idx /\ line_idx' = line_idx + 1
          /\ handles' = handles]_vars

\* the line after the one with hour 25 has been read from the same file and
\* its entry retained, after the two entries of the file before
C25_Witness ==
    /\ kind = "success"
    /\ pc = "reading" /\ file_idx = 2 /\ line_idx = 2
    /\ processed = <<1, 2, 4, 2>>
    /\ Len(successful_requests) = 3
    /\ successful_requests[3] = ParsedAt("success", 2, Rd).entry

(* ---------------------------------- C27 -------------------------------- *)
\* the lines handed over whose entry is of no configured own address and is
\* either of the fallback country or of a country that is not excluded
KeptWithUnknown ==
    {i \in DOMAIN processed :
        /\ EntryOfLine(i).ok
        /\ ~InList(EntryOfLine(i).ip, my_ip_list)
        /\ (ResolvedCountry(EntryOfLine(i).ip) = Unknown \/ ~InList(ResolvedCountry(EntryOfLine(i).ip), exclude_countries))}

\* C27: with the exclusion list produced by get_exclude_countries, whose
\* elements are all upper-cased, an entry whose country is the fallback value
\* "Unknown" is never dropped by the country filter, whatever the
\* EXCLUDE_COUNTRIES setting contains (including the text "Unknown"); only
\* entries with a resolved upper-case country code can be excluded.
C27_UnknownNeverExcluded ==
    /\ \A i \in DOMAIN exclude_countries.items : exclude_countries.items[i] = UpperStr(exclude_countries.items[i])
    /\ ~InList(Unknown, exclude_countries)
    /\ kind = "access" => access.total_requests = Cardinality(KeptWithUnknown)
    /\ kind = "success" => Len(successful_requests) = Cardinality(KeptWithUnknown)
    /\ \A i \in (IF kind = "error" THEN {} ELSE DOMAIN processed) :
          (EntryOfLine(i).ok /\ i \notin KeptWithUnknown /\ ~InList(EntryOfLine(i).ip, my_ip_list))
             => ResolvedCountry(EntryOfLine(i).ip) = UpperStr(ResolvedCountry(EntryOfLine(i).ip))

\* the setting named "Unknown" and "kr": an entry of the fallback country has
\* been counted and an entry resolved to KR has been dropped
C27_Witness ==
    /\ kind = "access"
    /\ exclude_countries = List(<<KR, UpperStr(Unknown)>>)
    /\ my_ip_list = List(<<>>)
    /\ \E i \in KeptWithUnknown : ResolvedCountry(EntryOfLine(i).ip) = Unknown
    /\ \E i \in DOMAIN processed : EntryOfLine(i).ok /\ ResolvedCountry(EntryOfLine(i).ip) = KR /\ i \notin KeptWithUnknown
    /\ access.total_requests >= 1

\* the same setting in the successful-request analyzer, without a database
C27_WitnessSuccess ==
    /\ kind = "success"
    /\ InList(UpperStr(Unknown), exclude_countries)
    /\ Len(successful_requests) >= 1
    /\ successful_requests[1].country = Unknown

(* ---------------------------------- C28 -------------------------------- *)
\* table t2 has the keys of t1 and twice each of its counts
IsTwice(t1, t2) ==
    /\ Keys(t2) = Keys(t1)
    /\ \A i \in DOMAIN t2 : t2[i][2] = 2 * Get(t1, t2[i][1])

\* C28: aggregation state is never reset between runs: calling analyze_logs
\* twice on the same access or successful-request analyzer over an unchanged
\* file set makes the second result carry exactly twice every count of the
\* first as it was returned (total, every count table, every weekly cell,
\* number of ip_records or retained entries), while the unique-IP figure is
\* the same as after the first call.
C28_SecondRunDoubles ==
    [][(pc = "loop" /\ pc' = "returned" /\ snapshot.ok)
       => /\ kind = "access" =>
               /\ snapshot'.total_requests = 2 * snapshot.total_requests
               /\ snapshot'.total_unique_ips = snapshot.total_unique_ips
               /\ Len(access'.ip_records) = 2 * snapshot.total_requests
               /\ IsTwice(snapshot.requests_by_country, snapshot'.requests_by_country)
               /\ IsTwice(snapshot.requests_by_hour, snapshot'.requests_by_hour)
               /\ IsTwice(snapshot.requests_by_date, snapshot'.requests_by_date)
               /\ IsTwice(snapshot.requests_by_status, snapshot'.requests_by_status)
               /\ IsTwice(snapshot.requests_by_method, snapshot'.requests_by_method)
               /\ Keys(snapshot'.weekly_stats) = Keys(snapshot.weekly_stats)
               /\ \A w \in Keys(snapshot.weekly_stats) :
                     IsTwice(Get(snapshot.weekly_stats, w), Get(snapshot'.weekly_stats, w))
          /\ kind = "success" =>
               /\ snapshot'.total_successful_requests = 2 * snapshot.total_successful_requests
               /\ snapshot'.unique_ips = snapshot.unique_ips
               /\ Len(snapshot'.successful_requests_details) = 2 * Len(snapshot.successful_requests_details)
               /\ IsTwice(snapshot.successful_requests_by_country, snapshot'.successful_requests_by_country)
               /\ IsTwice(snapshot.successful_requests_by_date, snapshot'.successful_requests_by_date)
               /\ IsTwice(snapshot.successful_requests_by_hour, snapshot'.successful_requests_by_hour)
               /\ IsTwice(snapshot.successful_requests_by_method, snapshot'.successful_requests_by_method)
               /\ IsTwice(snapshot.successful_requests_by_url, snapshot'.successful_requests_by_url)]_vars

\* the access analyzer has returned a second time: six accepted entries of two
\* addresses, three of them from each run
C28_Witness ==
    /\ pc = "returned"
    /\ kind = "access"
    /\ attempted = files \o files /\ files # <<>>
    /\ processed = <<1, 7, 3, 1, 1, 7, 3, 1>>
    /\ snapshot.total_requests = 6
    /\ snapshot.total_unique_ips = 2
    /\ Len(access.ip_records) = 6

\* the successful-request analyzer has returned a second time
C28_WitnessSuccess ==
    /\ pc = "returned"
    /\ kind = "success"
    /\ attempted = files \o files /\ files # <<>>
    /\ snapshot.total_successful_requests = 4
    /\ snapshot.unique_ips = 1

(* ---------------------------------- C29 -------------------------------- *)
\* while no entry has been accepted since a get_stats call, the object shows
\* what the call returned and a new call returns the same contents
RepeatedCallEqual ==
    (snapshot.ok /\ access.total_requests = snapshot.total_requests)
       => /\ access_get_stats(access) = snapshot
          /\ LiveStats(access, snapshot) = snapshot

\* C29: get_stats returns the processor's live stats object, not a copy:
\* after a get_stats call, a later accepted entry changes total_requests and
\* the requests_by_* tables of the object returned earlier, while that
\* object's total_unique_ips, top_countries and the set of week keys of its
\* weekly_stats keep the values of that call until get_stats is called again;
\* two get_stats calls with no processing in between return equal contents.
C29_StatsObjectIsLive ==
    [][/\ (snapshot.ok /\ access'.total_requests = access.total_requests + 1)
          => /\ snapshot' = snapshot
             /\ LiveStats(access', snapshot).total_requests = LiveStats(access, snapshot).total_requests + 1
             /\ LiveStats(access', snapshot).total_requests > snapshot.total_requests
             /\ LiveStats(access', snapshot).requests_by_country # LiveStats(access, snapshot).requests_by_country
             /\ LiveStats(access', snapshot).requests_by_hour # LiveStats(access, snapshot).requests_by_hour
             /\ LiveStats(access', snapshot).requests_by_date # LiveStats(access, snapshot).requests_by_date
             /\ LiveStats(access', snapshot).requests_by_status # LiveStats(access, snapshot).requests_by_status
             /\ LiveStats(access', snapshot).requests_by_method # LiveStats(access, snapshot).requests_by_method
             /\ LiveStats(access', snapshot).total_unique_ips = snapshot.total_unique_ips
             /\ LiveStats(access', snapshot).top_countries = snapshot.top_countries
             /\ Keys(LiveStats(access', snapshot).weekly_stats) = Keys(snapshot.weekly_stats)
       /\ RepeatedCallEqual']_vars

\* get_stats after one accepted entry, then an entry of another address,
\* country and week: the object shows two requests and two countries in
\* requests_by_country, and still one address, one top country, one week
C29_Witness ==
    /\ snapshot.ok
    /\ snapshot.total_requests = 1
    /\ LiveStats(access, snapshot).total_requests = 2
    /\ Len(LiveStats(access, snapshot).requests_by_country) = 2
    /\ LiveStats(access, snapshot).total_unique_ips = 1 /\ Cardinality(access.unique_ips) = 2
    /\ Len(LiveStats(access, snapshot).top_countries) = 1
    /\ Len(LiveStats(access, snapshot).weekly_stats) = 1 /\ Len(access.weekly_stats) = 2

\* a call made again after a line that was not accepted
C29_WitnessRepeated ==
    /\ snapshot.ok
    /\ Len(processed) = 2
    /\ access.total_requests = 1 /\ snapshot.total_requests = 1
    /\ access_get_stats(access) = snapshot

(* ---------------------------------- C30 -------------------------------- *)
\* a table as a mapping: the set of its key-count pairs
AsMapping(t) == {<<t[i][1], t[i][2]>> : i \in DOMAIN t}

\* the orderings of a sequence of lines
OrderingsOf(lines) ==
    {[i \in DOMAIN lines |-> lines[f[i]]] :
        f \in {g \in [DOMAIN lines -> DOMAIN lines] : \A i, j \in DOMAIN lines : g[i] = g[j] => i = j}}

\* the aggregates of the access processor without their insertion order
AccessAggregates(a) ==
    [total_requests |-> a.total_requests, unique |-> Cardinality(a.unique_ips),
     weekly_stats |-> {<<a.weekly_stats[i][1], AsMapping(a.weekly_stats[i][2])>> : i \in DOMAIN a.weekly_stats},
     requests_by_country |-> AsMapping(a.requests_by_country), requests_by_hour |-> AsMapping(a.requests_by_hour),
     requests_by_date |-> AsMapping(a.requests_by_date), requests_by_status |-> AsMapping(a.requests_by_status),
     requests_by_method |-> AsMapping(a.requests_by_method)]

\* the aggregates of the error processor without their insertion order
ErrorAggregates(e) ==
    [total_errors |-> e.total_errors, errors_by_level |-> AsMapping(e.errors_by_level),
     errors_by_hour |-> AsMapping(e.errors_by_hour), errors_by_date |-> AsMapping(e.errors_by_date),
     top_error_messages |-> AsMapping(e.top_error_messages), errors_by_pid |-> AsMapping(e.errors_by_pid),
     errors_by_country |-> AsMapping(e.errors_by_country), errors_by_ip |-> AsMapping(e.errors_by_ip),
     errors_by_url |-> AsMapping(e.errors_by_url), errors_by_method |-> AsMapping(e.errors_by_method),
     errors_by_error_type |-> AsMapping(e.errors_by_error_type)]

\* C30: the aggregates do not depend on processing order: for any two
\* orderings of the same multiset of lines, the final total, every count
\* table viewed as a key-to-count mapping, weekly_stats and the unique-IP
\* count are equal in the access and error processors; only insertion order,
\* and so top-N tie-breaks and the order of ip_records, may differ.
C30_OrderIndependent ==
    /\ kind = "access" =>
          \A lines \in OrderingsOf(processed) :
              AccessAggregates(AccessAfter(NewAccess, lines)) = AccessAggregates(access)
    /\ kind = "error" =>
          \A lines \in OrderingsOf(processed) :
              ErrorAggregates(ErrorAfter(NewError, lines)) = ErrorAggregates(error)

\* two accepted access lines of different countries: the other order gives
\* the same aggregates, another first top country and other ip_records
C30_Witness ==
    /\ kind = "access"
    /\ access.total_requests = 2
    /\ Len(access.requests_by_country) = 2
    /\ \E lines \in OrderingsOf(processed) :
          /\ lines # processed
          /\ AccessAggregates(AccessAfter(NewAccess, lines)) = AccessAggregates(access)
          /\ most_common(AccessAfter(NewAccess, lines).requests_by_country, TopN) # most_common(access.requests_by_country, TopN)
          /\ AccessAfter(NewAccess, lines).ip_records # access.ip_records

\* two error lines of different error types in the error processor
C30_WitnessError ==
    /\ kind = "error"
    /\ error.total_errors = 2
    /\ Len(error.errors_by_error_type) = 2
    /\ \E lines \in OrderingsOf(processed) :
          /\ ErrorAfter(NewError, lines) # error
          /\ ErrorAggregates(ErrorAfter(NewError, lines)) = ErrorAggregates(error)

====
